---------------------------- MODULE Spec2Model ----------------------------
(***************************************************************************)
(* The portfolio ledger of src/src/trading_system.py (class Portfolio) and *)
(* a client that calls buy, sell and update in any order.                  *)
(*                                                                         *)
(* Numbers.  The source computes with Python floats; the model computes    *)
(* the same expressions in exact arithmetic.  A price is a whole number of *)
(* yuan, a share count is an integer, and every amount of money (cash,     *)
(* cost, tax, market value, ...) is an integer number of mills, MoneyScale *)
(* mills to the yuan.  A fee rate r is held as the numerator of            *)
(* r = n / RateDen.  For the inputs the model draws (prices in whole yuan, *)
(* share counts in multiples of 50) every fee is a whole number of mills,  *)
(* which the invariant MoneyExact checks, so no operator of the model      *)
(* rounds.  Float rounding error of the source is not modelled.            *)
(*                                                                         *)
(* Records.  The source's transaction dictionaries have Chinese keys; the  *)
(* model names the fields date, action, price, shares, cost_or_income,     *)
(* tax, net, cash_after, position_after, market_value_after,               *)
(* total_assets_after, cumulative_investment and cumulative_pnl.  The      *)
(* percentage field (profit ratio) is a float quotient that no operation   *)
(* reads back; it is left out.  A returned message is modelled by its kind *)
(* and the values the f-string interpolates, not by its rendered text.     *)
(***************************************************************************)
EXTENDS Integers, Sequences, FiniteSets, TLC

(***************************************************************************)
(* Representation of money and rates.                                      *)
(***************************************************************************)
MoneyScale == 1000

RateDen == 100000

\* mills of fee per yuan of traded amount are  n * MoneyScale / RateDen = n / PerYuan
PerYuan == RateDen \div MoneyScale

Yuan(x) == x * MoneyScale

\* the board lot of lines 93 and 106
LotSize == 100

(***************************************************************************)
(* Bounds of the model and the inputs the client draws.                    *)
(***************************************************************************)
MaxCalls == 3

Dates == {1, 2}

Prices == {10, 20}

ShareCounts == {50, 100, 1000}

InitialCashes == {Yuan(1000), Yuan(1003), Yuan(100000)}

\* Portfolio.__init__'s default tax_config (lines 56-67) and TradingConfig.tax_rate
DefaultTaxConfig ==
    [ buy  |-> [commission |-> 30, transfer_fee |-> 2],
      sell |-> [commission |-> 30, stamp_duty |-> 100, transfer_fee |-> 2],
      min_commission |-> Yuan(5) ]

\* a fee schedule with every rate and the minimum commission zero
ZeroTaxConfig ==
    [ buy  |-> [commission |-> 0, transfer_fee |-> 0],
      sell |-> [commission |-> 0, stamp_duty |-> 0, transfer_fee |-> 0],
      min_commission |-> 0 ]

TaxConfigs == {DefaultTaxConfig, ZeroTaxConfig}

(***************************************************************************)
(* Python helpers.                                                         *)
(***************************************************************************)
\* int(n / d) for d > 0: truncation toward zero
IntTrunc(n, d) == IF n >= 0 THEN n \div d ELSE -((-n) \div d)

Max(a, b) == IF a >= b THEN a ELSE b

Min(a, b) == IF a <= b THEN a ELSE b

\* amount * rate, in mills, for an amount in yuan
RateOf(amount, num) == (amount * num) \div PerYuan

(***************************************************************************)
(* Fee calculator.                                                         *)
(***************************************************************************)
\* mutant: the minimum commission is not applied
calculate_buy_tax_NoMinimum(tc, price, shares) ==
    RateOf(price * shares, tc.buy.commission) + RateOf(price * shares, tc.buy.transfer_fee)

\* lines 69-76
calculate_buy_tax(tc, price, shares) ==
    LET amount == price * shares
        commission == Max(RateOf(amount, tc.buy.commission), tc.min_commission)
        transfer_fee == RateOf(amount, tc.buy.transfer_fee)
    IN  commission + transfer_fee

\* mutant: the sell side is charged like the buy side, without stamp duty
calculate_sell_tax_NoStampDuty(tc, price, shares) ==
    Max(RateOf(price * shares, tc.sell.commission), tc.min_commission)
        + RateOf(price * shares, tc.sell.transfer_fee)

\* lines 78-86
calculate_sell_tax(tc, price, shares) ==
    LET amount == price * shares
        commission == Max(RateOf(amount, tc.sell.commission), tc.min_commission)
        stamp_duty == RateOf(amount, tc.sell.stamp_duty)
        transfer_fee == RateOf(amount, tc.sell.transfer_fee)
    IN  commission + stamp_duty + transfer_fee

(***************************************************************************)
(* Portfolio.__init__                                                      *)
(***************************************************************************)
\* one dictionary of self.transactions
Record(date, action, price, shares, amount, tax, net, cash, position, value, pnl, self) ==
    [ date |-> date, action |-> action, price |-> price, shares |-> shares,
      cost_or_income |-> amount, tax |-> tax, net |-> net,
      cash_after |-> cash, position_after |-> position,
      market_value_after |-> value, total_assets_after |-> cash + value,
      cumulative_investment |-> self.total_investment, cumulative_pnl |-> pnl ]

\* lines 38-53
InitRecord(today, cash) ==
    [ date |-> today, action |-> "init", price |-> 0, shares |-> 0,
      cost_or_income |-> 0, tax |-> 0, net |-> 0,
      cash_after |-> cash, position_after |-> 0,
      market_value_after |-> 0, total_assets_after |-> cash,
      cumulative_investment |-> 0, cumulative_pnl |-> 0 ]

NewPortfolio(initial_cash, tc, today) ==
    [ initial_cash |-> initial_cash,
      cash |-> initial_cash,
      position |-> 0,
      transactions |-> <<InitRecord(today, initial_cash)>>,
      initial_buy |-> TRUE,
      total_investment |-> 0,
      total_buy_cost |-> 0,
      total_buy_tax |-> 0,
      total_sell_income |-> 0,
      total_sell_tax |-> 0,
      tax_config |-> tc ]

(***************************************************************************)
(* Messages and results.                                                   *)
(***************************************************************************)
\* the kind of a returned message and the values its f-string interpolates
Msg(kind, shares, price, tax) ==
    [kind |-> kind, shares |-> shares, price |-> price, tax |-> tax]

NoMsg == Msg("none", 0, 0, 0)

\* mutant: a refused trade is logged all the same
Failure_Logged(self, kind) ==
    [ self |-> [self EXCEPT !.transactions =
                    Append(@, Record(0, "hold", 0, 0, 0, 0, 0,
                                     self.cash, self.position, 0, 0, self))],
      ok |-> FALSE, msg |-> Msg(kind, 0, 0, 0) ]

\* lines 98, 108 and 154: return False and a reason, the ledger untouched
Failure(self, kind) ==
    [self |-> self, ok |-> FALSE, msg |-> Msg(kind, 0, 0, 0)]

(***************************************************************************)
(* Portfolio.buy                                                           *)
(***************************************************************************)
\* line 93: int(self.cash / price / 100) * 100
max_shares(self, price) ==
    IntTrunc(self.cash, Yuan(price) * LotSize) * LotSize

\* line 106: int(self.cash / (price * (1 + commission + transfer_fee)) / 100) * 100
max_shares_with_tax(self, price) ==
    IntTrunc(self.cash,
             (price * (RateDen + self.tax_config.buy.commission
                               + self.tax_config.buy.transfer_fee) * LotSize)
                \div PerYuan) * LotSize

\* mutant: the establishing buy keeps the requested share count
buy_sized_shares_AsRequested(self, price, shares) == shares

\* lines 91-98: the share count the buy goes on with, the requested one unless
\* this is the establishing buy
buy_sized_shares(self, price, shares) ==
    IF self.initial_buy THEN max_shares(self, price) ELSE shares

\* mutant: the flag is never cleared
clear_initial_buy_Forgotten(self) == self

\* line 96
clear_initial_buy(self) == [self EXCEPT !.initial_buy = FALSE]

\* mutant: the tax is debited twice
buy_total_cost_TaxTwice(cost, tax) == cost + tax + tax

\* mutant: the tax is computed and recorded but not debited
buy_total_cost_NoTax(cost, tax) == cost

\* line 102
buy_total_cost(cost, tax) == cost + tax

\* mutant: the market value counts only the shares just bought
BuyRecord_OnlyNewShares(self, date, price, shares, cost, tax, total_cost) ==
    Record(date, "buy", price, shares, cost, tax, total_cost,
           self.cash, self.position, Yuan(price * shares),
           Yuan(price * shares) - self.total_investment, self)

\* lines 129-144
BuyRecord(self, date, price, shares, cost, tax, total_cost) ==
    LET current_value == Yuan(price * self.position)
        current_profit == current_value - self.total_investment
    IN  Record(date, "buy", price, shares, cost, tax, total_cost,
               self.cash, self.position, current_value, current_profit, self)

\* lines 114-146: debit, credit, accumulate, append, return success
buy_execute(self, date, price, shares) ==
    LET cost == Yuan(price * shares)
        tax == calculate_buy_tax(self.tax_config, price, shares)
        total_cost == buy_total_cost(cost, tax)
        s1 == [self EXCEPT !.cash = @ - total_cost,
                           !.position = @ + shares,
                           !.total_buy_cost = @ + cost,
                           !.total_buy_tax = @ + tax,
                           !.total_investment = @ + total_cost]
        s2 == [s1 EXCEPT !.transactions =
                   Append(@, BuyRecord(s1, date, price, shares, cost, tax, total_cost))]
    IN  [self |-> s2, ok |-> TRUE, msg |-> Msg("buy_ok", shares, price, tax)]

\* lines 100-112: the insufficient-funds rule, entered with the flag already cleared
buy_funded(self, date, price, shares) ==
    LET cost == Yuan(price * shares)
        tax == calculate_buy_tax(self.tax_config, price, shares)
        total_cost == buy_total_cost(cost, tax)
    IN  IF total_cost > self.cash
        THEN IF max_shares_with_tax(self, price) <= 0
             THEN Failure(self, "insufficient_funds")
             ELSE buy_execute(self, date, price, max_shares_with_tax(self, price))
        ELSE buy_execute(self, date, price, shares)

\* lines 88-146
buy(self, date, price, shares) ==
    IF self.initial_buy /\ ~(max_shares(self, price) > 0)
    THEN Failure(self, "insufficient_initial_capital")
    ELSE buy_funded(IF self.initial_buy THEN clear_initial_buy(self) ELSE self,
                    date, price, buy_sized_shares(self, price, shares))

(***************************************************************************)
(* Portfolio.sell                                                          *)
(***************************************************************************)
\* mutant: the request is not clamped to the position
sell_clamped_shares_NoClamp(self, shares) == shares

\* lines 150-151
sell_clamped_shares(self, shares) ==
    IF shares > self.position THEN self.position ELSE shares

\* mutant: the gross income is credited
sell_net_income_Gross(income, tax) == income

\* line 158
sell_net_income(income, tax) == income - tax

\* lines 179-194
SellRecord(self, date, price, shares, income, tax, net_income) ==
    LET current_value == Yuan(price * self.position)
        current_profit == current_value - self.total_investment
                            + self.total_sell_income - self.total_buy_cost
    IN  Record(date, "sell", price, shares, income, tax, net_income,
               self.cash, self.position, current_value, current_profit, self)

\* lines 156-196
sell_execute(self, date, price, shares) ==
    LET income == Yuan(price * shares)
        tax == calculate_sell_tax(self.tax_config, price, shares)
        net_income == sell_net_income(income, tax)
        s1 == [self EXCEPT !.cash = @ + net_income,
                           !.position = @ - shares,
                           !.total_sell_income = @ + income,
                           !.total_sell_tax = @ + tax,
                           !.total_investment = Max(@ - net_income, 0)]
        s2 == [s1 EXCEPT !.transactions =
                   Append(@, SellRecord(s1, date, price, shares, income, tax, net_income))]
    IN  [self |-> s2, ok |-> TRUE, msg |-> Msg("sell_ok", shares, price, tax)]

\* mutant: an empty sell is let through
sell_NoEmptyCheck(self, date, price, shares) ==
    IF sell_clamped_shares(self, shares) < 0
    THEN Failure(self, "insufficient_position")
    ELSE sell_execute(self, date, price, sell_clamped_shares(self, shares))

\* lines 148-196
sell(self, date, price, shares) ==
    IF sell_clamped_shares(self, shares) <= 0
    THEN Failure(self, "insufficient_position")
    ELSE sell_execute(self, date, price, sell_clamped_shares(self, shares))

(***************************************************************************)
(* Portfolio.update                                                        *)
(***************************************************************************)
\* mutant: every call appends a hold record
update_is_new_date_Always(self, date) == TRUE

\* mutant: the date is looked for in the first record, not the last
update_is_new_date_First(self, date) ==
    \/ self.transactions = << >>
    \/ self.transactions[1].date # date

\* line 200
update_is_new_date(self, date) ==
    \/ self.transactions = << >>
    \/ self.transactions[Len(self.transactions)].date # date

\* mutant: the position is not marked to the price
HoldRecord_NoMarketValue(self, date, price) ==
    Record(date, "hold", price, 0, 0, 0, 0, self.cash, self.position, 0, 0, self)

\* lines 201-225
HoldRecord(self, date, price) ==
    LET current_value == Yuan(price * self.position)
        current_profit == IF self.position > 0
                          THEN current_value - self.total_investment
                          ELSE 0
    IN  Record(date, "hold", price, 0, 0, 0, 0,
               self.cash, self.position, current_value, current_profit, self)

\* lines 198-225; the method returns None
update(self, date, price) ==
    [ self |-> IF update_is_new_date(self, date)
               THEN [self EXCEPT !.transactions = Append(@, HoldRecord(self, date, price))]
               ELSE self,
      ok |-> TRUE,
      msg |-> NoMsg ]

(***************************************************************************)
(* The state: one Portfolio object, the number of calls made on it, and    *)
(* the last call: its arguments, what it returned, and the ledger as it    *)
(* was when the call was made.  stats holds what the last get_statistics   *)
(* computed, and backtest the position of a run_backtest in its loop;      *)
(* both are defined further down and rest while the client of Spec calls   *)
(* the ledger directly.                                                    *)
(***************************************************************************)
VARIABLES portfolio, calls, last, stats, backtest

vars == <<portfolio, calls, last, stats, backtest>>

\* get_statistics has not been called
NoStats == [called |-> FALSE]

\* no run_backtest is under way
NoBacktest == [pc |-> "none"]

Call(op, date, price, shares, pre, ret) ==
    [ op |-> op, date |-> date, price |-> price, shares |-> shares,
      pre |-> pre, ok |-> ret.ok, msg |-> ret.msg ]

Init ==
    /\ \E initial_cash \in InitialCashes, tc \in TaxConfigs, today \in Dates :
           portfolio = NewPortfolio(initial_cash, tc, today)
    /\ calls = 0
    /\ last = Call("new", 0, 0, 0, portfolio, [ok |-> TRUE, msg |-> NoMsg])
    /\ stats = NoStats
    /\ backtest = NoBacktest

Buy ==
    /\ calls < MaxCalls
    /\ \E date \in Dates, price \in Prices, shares \in ShareCounts :
           LET ret == buy(portfolio, date, price, shares)
           IN  /\ portfolio' = ret.self
               /\ last' = Call("buy", date, price, shares, portfolio, ret)
    /\ calls' = calls + 1
    /\ UNCHANGED <<stats, backtest>>

Sell ==
    /\ calls < MaxCalls
    /\ \E date \in Dates, price \in Prices, shares \in ShareCounts :
           LET ret == sell(portfolio, date, price, shares)
           IN  /\ portfolio' = ret.self
               /\ last' = Call("sell", date, price, shares, portfolio, ret)
    /\ calls' = calls + 1
    /\ UNCHANGED <<stats, backtest>>

Update ==
    /\ calls < MaxCalls
    /\ \E date \in Dates, price \in Prices :
           LET ret == update(portfolio, date, price)
           IN  /\ portfolio' = ret.self
               /\ last' = Call("update", date, price, 0, portfolio, ret)
    /\ calls' = calls + 1
    /\ UNCHANGED <<stats, backtest>>

Next == Buy \/ Sell \/ Update

Spec == Init /\ [][Next]_vars

(***************************************************************************)
(* Sanity of the model itself.                                             *)
(***************************************************************************)
Transactions == portfolio.transactions

LastRecord == Transactions[Len(Transactions)]

Records == {Transactions[i] : i \in 1..Len(Transactions)}

\* every fee the model computed is a whole number of mills: nothing was rounded
MoneyExact ==
    \A r \in Records :
        \A n \in { portfolio.tax_config.buy.commission,
                   portfolio.tax_config.buy.transfer_fee,
                   portfolio.tax_config.sell.commission,
                   portfolio.tax_config.sell.stamp_duty,
                   portfolio.tax_config.sell.transfer_fee } :
            ((r.price * r.shares) * n) % PerYuan = 0

(***************************************************************************)
(* Shorthands for the properties below.                                    *)
(***************************************************************************)
\* the ledger as it was when the last call was made
Pre == last.pre

\* the last call was a buy or a sell
IsTrade == last.op \in {"buy", "sell"}

\* the share count a sell request comes to: min(shares, position)
Clamped == Min(last.shares, Pre.position)

(***************************************************************************)
(* C1.  With positive prices and share counts, non-negative initial cash   *)
(* and non-negative fee rates, the ledger's cash is never negative and no  *)
(* record carries a negative cash_after.                                   *)
(* The code breaks it: the insufficient-funds rule of line 106 sizes the   *)
(* purchase by the proportional rates only, and the minimum commission of  *)
(* calculate_buy_tax then takes the debit past the cash at hand.           *)
(***************************************************************************)
C1_CashNeverNegative ==
    /\ portfolio.cash >= 0
    /\ \A r \in Records : r.cash_after >= 0

(***************************************************************************)
(* C2.  The position is never negative, no record carries a negative       *)
(* position_after, and a sell never removes more shares than were held.    *)
(***************************************************************************)
C2_PositionNeverNegative ==
    /\ portfolio.position >= 0
    /\ \A r \in Records : r.position_after >= 0
    /\ (last.op = "sell" /\ last.ok) =>
           /\ LastRecord.shares <= Pre.position
           /\ Pre.position - portfolio.position = LastRecord.shares

\* a sell that asked for more than was held went through and emptied the position
C2_Witness ==
    /\ last.op = "sell" /\ last.ok
    /\ last.shares > Pre.position
    /\ portfolio.position = 0

(***************************************************************************)
(* C3.  Every record balances: cash_after + position_after * price is      *)
(* total_assets_after, and market_value_after is price * position_after;   *)
(* and after every call, failed ones included, the last record carries the *)
(* ledger's current cash and position.                                     *)
(***************************************************************************)
C3_RecordsBalance ==
    /\ \A r \in Records :
           /\ r.cash_after + Yuan(r.position_after * r.price) = r.total_assets_after
           /\ r.market_value_after = Yuan(r.price * r.position_after)
    /\ LastRecord.cash_after = portfolio.cash
    /\ LastRecord.position_after = portfolio.position

\* a log with a buy and a sell that left shares, seen after a failed call
C3_Witness ==
    /\ IsTrade /\ ~last.ok
    /\ \E r \in Records : r.action = "buy"
    /\ \E r \in Records : r.action = "sell" /\ r.position_after > 0

(***************************************************************************)
(* C4.  A buy or sell that returns success appends exactly one record,     *)
(* whose action is that of the call, and leaves the earlier records as     *)
(* they were; one that returns failure leaves the log as it was.           *)
(***************************************************************************)
C4_OneRecordPerSuccess ==
    IsTrade =>
        IF last.ok
        THEN /\ Len(Transactions) = Len(Pre.transactions) + 1
             /\ SubSeq(Transactions, 1, Len(Pre.transactions)) = Pre.transactions
             /\ LastRecord.action = last.op
        ELSE Transactions = Pre.transactions

\* a buy refused for lack of funds, on a ledger that has traded before
C4_Witness ==
    /\ last.op = "buy" /\ ~last.ok
    /\ last.msg.kind = "insufficient_funds"
    /\ Len(Transactions) >= 2

(***************************************************************************)
(* C5.  A successful buy of s shares at price p, s being the share count   *)
(* of the record it appended, takes exactly p*s + buy_tax(p, s) from cash  *)
(* and adds exactly s to the position.                                     *)
(***************************************************************************)
C5_BuyDebitsCostPlusTax ==
    (last.op = "buy" /\ last.ok) =>
        LET s == LastRecord.shares
            p == last.price
        IN  /\ LastRecord.action = "buy" /\ LastRecord.price = p
            /\ portfolio.cash =
                   Pre.cash - (Yuan(p * s) + calculate_buy_tax(Pre.tax_config, p, s))
            /\ portfolio.position = Pre.position + s

\* a later buy went through for fewer shares than were asked for
C5_Witness ==
    /\ last.op = "buy" /\ last.ok
    /\ ~Pre.initial_buy
    /\ LastRecord.shares < last.shares
    /\ LastRecord.tax > Pre.tax_config.min_commission

(***************************************************************************)
(* C6.  A sell carries out min(shares, position) shares; when that is <= 0 *)
(* it fails with the insufficient-position message, appends no record and  *)
(* leaves the ledger as it was.                                            *)
(***************************************************************************)
C6_SellClampsOrFails ==
    last.op = "sell" =>
        IF Clamped <= 0
        THEN /\ ~last.ok
             /\ last.msg.kind = "insufficient_position"
             /\ portfolio = Pre
        ELSE /\ LastRecord.action = "sell"
             /\ LastRecord.shares = Clamped

\* a sell on an empty position was refused
C6_Witness ==
    /\ last.op = "sell" /\ ~last.ok
    /\ Pre.position = 0
    /\ ~Pre.initial_buy

(***************************************************************************)
(* C7.  A sell whose clamped share count s is > 0 succeeds, adds exactly   *)
(* price*s - sell_tax(price, s) to cash and takes exactly s from the       *)
(* position.                                                               *)
(***************************************************************************)
C7_SellCreditsNetIncome ==
    (last.op = "sell" /\ Clamped > 0) =>
        LET s == Clamped
            p == last.price
        IN  /\ last.ok
            /\ portfolio.cash =
                   Pre.cash + Yuan(p * s) - calculate_sell_tax(Pre.tax_config, p, s)
            /\ portfolio.position = Pre.position - s

\* part of a position was sold, at a tax above the minimum commission
C7_Witness ==
    /\ last.op = "sell" /\ last.ok
    /\ 0 < portfolio.position
    /\ LastRecord.tax > Pre.tax_config.min_commission + 1

(***************************************************************************)
(* C8.  On a ledger whose establishing buy has not happened, what a buy    *)
(* does - its result, the ledger it leaves, the record it appends - is the *)
(* same whatever share count it is given.                                  *)
(***************************************************************************)
C8_EstablishingBuyIgnoresShares ==
    (last.op = "buy" /\ Pre.initial_buy) =>
        \A shares \in ShareCounts \cup {0, 1, 10000} :
            LET other == buy(Pre, last.date, last.price, shares)
            IN  /\ other.self = portfolio
                /\ other.ok = last.ok
                /\ other.msg = last.msg

\* an establishing buy went through for a share count other than the one given
C8_Witness ==
    /\ last.op = "buy" /\ Pre.initial_buy /\ last.ok
    /\ LastRecord.shares # last.shares

(***************************************************************************)
(* C9.  On a ledger whose establishing buy has not happened: when          *)
(* floor(cash / price / 100) * 100 is 0 the buy fails with the             *)
(* insufficient-initial-capital message and leaves the ledger as it was,   *)
(* the flag included; otherwise the establishing buy is marked done.       *)
(***************************************************************************)
C9_EstablishingBuyOrRefusal ==
    (last.op = "buy" /\ Pre.initial_buy) =>
        IF (Pre.cash \div (Yuan(last.price) * 100)) * 100 = 0
        THEN /\ ~last.ok
             /\ last.msg.kind = "insufficient_initial_capital"
             /\ portfolio = Pre
             /\ portfolio.initial_buy
        ELSE ~portfolio.initial_buy

\* the establishing buy was refused: the cash does not pay for one lot
C9_Witness ==
    /\ last.op = "buy" /\ Pre.initial_buy /\ ~last.ok
    /\ last.msg.kind = "insufficient_initial_capital"
    /\ Pre.cash > 0

\* the other branch of C9: the flag is cleared although the buy then fails
C9_ClearedOnFailure ==
    /\ last.op = "buy" /\ Pre.initial_buy /\ ~last.ok
    /\ ~portfolio.initial_buy

(***************************************************************************)
(* C10.  When the cost plus tax of a buy's share count (the requested one, *)
(* or the establishing size) exceeds cash, the buy carries out             *)
(* floor(cash / (price * (1 + commission + transfer_fee)) / 100) * 100     *)
(* shares, and fails with the insufficient-funds message when that is 0.   *)
(* Instance: a fresh ledger with cash 100000 and the default fees buys     *)
(* 9900 shares at price 10, with tax 31.68, and is left with cash 968.32.  *)
(* The general rule fails on a ledger that C1's defect has left with       *)
(* negative cash: there the floor is -100, not 0, and the code (int(),     *)
(* and the test <= 0) refuses the buy.                                     *)
(***************************************************************************)
\* floor(cash / price / 100) * 100
C10_EstablishingSize == (Pre.cash \div (Yuan(last.price) * 100)) * 100

\* the share count the buy starts from
C10_Requested == IF Pre.initial_buy THEN C10_EstablishingSize ELSE last.shares

\* floor(cash / (price * (1 + commission + transfer_fee)) / 100) * 100
C10_Affordable ==
    (Pre.cash \div ((last.price * (RateDen + Pre.tax_config.buy.commission
                                           + Pre.tax_config.buy.transfer_fee) * 100)
                       \div PerYuan)) * 100

\* the buy got as far as pricing its share count, and the price exceeds the cash
C10_Short ==
    /\ last.op = "buy"
    /\ ~(Pre.initial_buy /\ C10_EstablishingSize = 0)
    /\ Yuan(last.price * C10_Requested)
         + calculate_buy_tax(Pre.tax_config, last.price, C10_Requested) > Pre.cash

C10_Rule ==
    C10_Short =>
        IF C10_Affordable = 0
        THEN ~last.ok /\ last.msg.kind = "insufficient_funds"
        ELSE /\ last.ok
             /\ LastRecord.action = "buy"
             /\ LastRecord.shares = C10_Affordable

C10_Instance ==
    ( /\ last.op = "buy"
      /\ Pre.initial_buy
      /\ Pre.cash = Yuan(100000)
      /\ Pre.tax_config = DefaultTaxConfig
      /\ last.price = 10 ) =>
        /\ last.ok
        /\ LastRecord.shares = 9900
        /\ LastRecord.tax = 31680
        /\ portfolio.cash = 968320

C10_ShrinkToAffordable == C10_Rule /\ C10_Instance

\* the same rule on the ledgers whose cash is not negative
C10_RuleOnNonNegativeCash == Pre.cash >= 0 => C10_Rule

\* the instance's buy was made
C10_InstanceReached ==
    /\ last.op = "buy" /\ Pre.initial_buy /\ Pre.cash = Yuan(100000)
    /\ Pre.tax_config = DefaultTaxConfig /\ last.price = 10

\* a later buy was shrunk to a share count that is not zero
C10_ShrunkReached ==
    /\ C10_Short /\ ~Pre.initial_buy /\ last.ok

(***************************************************************************)
(* C11.  update(date, price) called twice in a row with the same date, on  *)
(* a ledger whose last record has another date, appends exactly one hold   *)
(* record: the second call changes nothing, whatever its price.            *)
(***************************************************************************)
\* the last record of the ledger the last call was made on
PreLastRecord == Pre.transactions[Len(Pre.transactions)]

C11_UpdateIdempotent ==
    last.op = "update" =>
        IF PreLastRecord.date # last.date
        THEN /\ Len(Transactions) = Len(Pre.transactions) + 1
             /\ LastRecord.action = "hold" /\ LastRecord.date = last.date
             /\ \A price \in Prices :
                    update(portfolio, last.date, price).self = portfolio
        ELSE portfolio = Pre

\* the second of two updates with one date and two prices: nothing was appended
C11_Witness ==
    /\ last.op = "update"
    /\ PreLastRecord.action = "hold"
    /\ PreLastRecord.date = last.date
    /\ PreLastRecord.price # last.price
    /\ portfolio = Pre

(***************************************************************************)
(* C12.  As claimed: after any sequence of buy, sell and update calls no   *)
(* two records of the log carry the same date.  The code does not keep     *)
(* that: buy and sell append without looking at dates, and update looks    *)
(* only at the last record.                                                *)
(***************************************************************************)
C12_OneRecordPerDate ==
    \A i, j \in 1..Len(Transactions) :
        Transactions[i].date = Transactions[j].date => i = j

(***************************************************************************)
(* C12, amended.  update never appends a record that carries the date of   *)
(* the record before it: no hold record directly follows a record with the *)
(* same date.                                                              *)
(***************************************************************************)
C12_NoHoldAfterSameDate ==
    \A i \in 2..Len(Transactions) :
        Transactions[i].action = "hold" =>
            Transactions[i].date # Transactions[i - 1].date

\* a log with two records of one date, and an update of that date that added none
C12_Witness ==
    /\ last.op = "update"
    /\ PreLastRecord.date = last.date
    /\ PreLastRecord.action \in {"buy", "sell"}
    /\ \E i \in 1..(Len(Transactions) - 1) : Transactions[i].date = last.date
    /\ Transactions = Pre.transactions

(***************************************************************************)
(* C13.  Every buy record's share count is a non-negative integer, and the *)
(* share count of the first buy record, the establishing buy, is a         *)
(* multiple of 100.                                                        *)
(* The code breaks the second half: line 96 clears initial_buy before the  *)
(* funds check of lines 104-108, so an establishing buy refused for lack   *)
(* of funds is never made up for, and the first buy record is an ordinary  *)
(* buy of the requested share count.                                       *)
(***************************************************************************)
BuyIndices == {i \in 1..Len(Transactions) : Transactions[i].action = "buy"}

C13_BuyShareCounts ==
    /\ \A i \in BuyIndices : Transactions[i].shares \in Nat
    /\ \A i \in BuyIndices :
           (\A j \in BuyIndices : i <= j) => Transactions[i].shares % 100 = 0

\* the first half alone
C13_SharesNonNegative ==
    \A i \in BuyIndices : Transactions[i].shares \in Nat

(***************************************************************************)
(* The fee calculator called on its own.  FeeSpec lets the client call     *)
(* calculate_buy_tax and calculate_sell_tax, with prices and share counts  *)
(* that may be 0, between its calls of buy, sell and update.  The returned *)
(* tax is kept in last.msg.tax.                                            *)
(***************************************************************************)
FeePrices == {0, 10, 20}

FeeShareCounts == {0, 50, 500}

CalculateBuyTax ==
    /\ calls < MaxCalls
    /\ \E price \in FeePrices, shares \in FeeShareCounts :
           LET tax == calculate_buy_tax(portfolio.tax_config, price, shares)
           IN  last' = Call("calculate_buy_tax", 0, price, shares, portfolio,
                            [ok |-> TRUE, msg |-> Msg("tax", shares, price, tax)])
    /\ calls' = calls + 1
    /\ UNCHANGED <<portfolio, stats, backtest>>

CalculateSellTax ==
    /\ calls < MaxCalls
    /\ \E price \in FeePrices, shares \in FeeShareCounts :
           LET tax == calculate_sell_tax(portfolio.tax_config, price, shares)
           IN  last' = Call("calculate_sell_tax", 0, price, shares, portfolio,
                            [ok |-> TRUE, msg |-> Msg("tax", shares, price, tax)])
    /\ calls' = calls + 1
    /\ UNCHANGED <<portfolio, stats, backtest>>

FeeNext == Buy \/ Sell \/ Update \/ CalculateBuyTax \/ CalculateSellTax

FeeSpec == Init /\ [][FeeNext]_vars

(***************************************************************************)
(* C14.  buy_tax(price, shares) is                                         *)
(*   max(price*shares*buy.commission_rate, min_commission)                 *)
(*     + price*shares*buy.transfer_fee_rate                                *)
(* for every non-negative price and share count, so its commission part is *)
(* never below min_commission; the call changes no ledger state.           *)
(* Both sides of the equation are multiplied by PerYuan, which keeps the   *)
(* claim's products whole.                                                 *)
(***************************************************************************)
C14_BuyTaxFormula ==
    last.op = "calculate_buy_tax" =>
        LET tc == Pre.tax_config
            amount == last.price * last.shares
        IN  /\ last.msg.tax * PerYuan =
                   Max(amount * tc.buy.commission, tc.min_commission * PerYuan)
                     + amount * tc.buy.transfer_fee
            /\ last.msg.tax * PerYuan - amount * tc.buy.transfer_fee
                   >= tc.min_commission * PerYuan
            /\ portfolio = Pre

\* the tax of a small purchase, asked of a ledger that holds shares: the minimum applies
C14_Witness ==
    /\ last.op = "calculate_buy_tax"
    /\ last.price * last.shares > 0
    /\ Pre.tax_config.min_commission > 0
    /\ last.msg.tax * PerYuan =
           (Pre.tax_config.min_commission * PerYuan
              + last.price * last.shares * Pre.tax_config.buy.transfer_fee)
    /\ Pre.position > 0

(***************************************************************************)
(* C15.  sell_tax(price, shares) is                                        *)
(*   max(price*shares*sell.commission_rate, min_commission)                *)
(*     + price*shares*sell.stamp_duty_rate                                 *)
(*     + price*shares*sell.transfer_fee_rate                               *)
(* for every non-negative price and share count.  Instance: 500 shares at  *)
(* 20.00 with rates 0.0003 / 0.001 / 0.00002 and minimum commission 5 give *)
(* tax 15.2 and net income 9984.8.                                         *)
(***************************************************************************)
C15_SellTaxFormula ==
    last.op = "calculate_sell_tax" =>
        LET tc == Pre.tax_config
            amount == last.price * last.shares
        IN  /\ last.msg.tax * PerYuan =
                   Max(amount * tc.sell.commission, tc.min_commission * PerYuan)
                     + amount * tc.sell.stamp_duty
                     + amount * tc.sell.transfer_fee
            /\ (tc = DefaultTaxConfig /\ last.price = 20 /\ last.shares = 500) =>
                   /\ last.msg.tax = 15200
                   /\ sell_net_income(Yuan(last.price * last.shares), last.msg.tax)
                          = 9984800

\* the instance's tax was asked for
C15_Witness ==
    /\ last.op = "calculate_sell_tax"
    /\ Pre.tax_config = DefaultTaxConfig
    /\ last.price = 20 /\ last.shares = 500
    /\ last.msg.tax = 15200

(***************************************************************************)
(* Portfolio.get_statistics                                                *)
(*                                                                         *)
(* The two percentages of the report (return and profit ratio) are float   *)
(* quotients and are left out.  Besides the report, the result keeps two   *)
(* locals of the method as they stand when it returns: buy_records, the    *)
(* queue of open lots, and the trade_profit of every sell the loop         *)
(* matched, in order.                                                      *)
(***************************************************************************)
RECURSIVE SeqSum(_)
SeqSum(s) == IF s = << >> THEN 0 ELSE s[1] + SeqSum(Tail(s))

RECURSIVE SeqMax(_)
SeqMax(s) == IF Len(s) = 1 THEN s[1] ELSE Max(s[1], SeqMax(Tail(s)))

RECURSIVE SeqMin(_)
SeqMin(s) == IF Len(s) = 1 THEN s[1] ELSE Min(s[1], SeqMin(Tail(s)))

\* the columns of the DataFrame that are aggregated
TaxColumn(df) == [i \in 1..Len(df) |-> df[i].tax]

TotalAssetsColumn(df) == [i \in 1..Len(df) |-> df[i].total_assets_after]

\* mutant: a lot that is only partly sold is dropped from the queue
reduce_front_lot_Dropped(buy_records, remaining_shares) == Tail(buy_records)

\* mutant: a lot sold in part stays whole
reduce_front_lot_Untouched(buy_records, remaining_shares) == buy_records

\* line 277: buy_record['shares'] -= remaining_shares, on the lot at the front
reduce_front_lot(buy_records, remaining_shares) ==
    [buy_records EXCEPT ![1].shares = @ - remaining_shares]

\* lines 267-278: the while loop that matches one sell against the open lots
RECURSIVE fifo_match(_, _, _, _)
fifo_match(buy_records, price, remaining_shares, trade_profit) ==
    IF remaining_shares > 0 /\ buy_records # << >>
    THEN LET buy_record == buy_records[1]
         IN  IF buy_record.shares <= remaining_shares
             THEN fifo_match(Tail(buy_records), price,
                             remaining_shares - buy_record.shares,
                             trade_profit
                               + Yuan((price - buy_record.price) * buy_record.shares))
             ELSE fifo_match(reduce_front_lot(buy_records, remaining_shares), price,
                             0,
                             trade_profit
                               + Yuan((price - buy_record.price) * remaining_shares))
    ELSE [buy_records |-> buy_records, trade_profit |-> trade_profit]

\* line 280
track_max_profit(max_profit, trade_profit) == Max(max_profit, trade_profit)

\* mutant: the largest loss is tracked with max
track_max_loss_WithMax(max_loss, trade_profit) == Max(max_loss, trade_profit)

\* line 281
track_max_loss(max_loss, trade_profit) == Min(max_loss, trade_profit)

\* lines 252-281: the loop over the rows, from row i on
RECURSIVE trade_loop(_, _, _)
trade_loop(df, i, st) ==
    IF i > Len(df) THEN st
    ELSE LET row == df[i]
         IN  IF row.action = "buy"
             THEN trade_loop(df, i + 1,
                      [st EXCEPT !.buy_records =
                           Append(@, [price |-> row.price, shares |-> row.shares])])
             ELSE IF row.action = "sell" /\ st.buy_records # << >>
             THEN LET m == fifo_match(st.buy_records, row.price, row.shares, 0)
                  IN  trade_loop(df, i + 1,
                          [ buy_records |-> m.buy_records,
                            trade_profits |-> Append(st.trade_profits, m.trade_profit),
                            max_profit |-> track_max_profit(st.max_profit, m.trade_profit),
                            max_loss |-> track_max_loss(st.max_loss, m.trade_profit) ])
             ELSE trade_loop(df, i + 1, st)

\* lines 231-302
get_statistics(self) ==
    LET df == self.transactions
        IsBuy(r) == r.action = "buy"
        IsSell(r) == r.action = "sell"
        buy_count == Cardinality({i \in 1..Len(df) : IsBuy(df[i])})
        sell_count == Cardinality({i \in 1..Len(df) : IsSell(df[i])})
        st == trade_loop(df, 1, [ buy_records |-> << >>, trade_profits |-> << >>,
                                  max_profit |-> 0, max_loss |-> 0 ])
    IN  [ called |-> TRUE,
          report |->
            [ initial_assets |-> self.initial_cash,
              final_assets |-> df[Len(df)].total_assets_after,
              buy_count |-> buy_count,
              sell_count |-> sell_count,
              total_trades |-> buy_count + sell_count,
              total_tax |-> SeqSum(TaxColumn(df)),
              max_total_assets |-> SeqMax(TotalAssetsColumn(df)),
              min_total_assets |-> SeqMin(TotalAssetsColumn(df)),
              current_profit |-> df[Len(df)].cumulative_pnl,
              total_buy_cost |-> self.total_buy_cost,
              total_sell_income |-> self.total_sell_income,
              total_buy_tax |-> self.total_buy_tax,
              total_sell_tax |-> self.total_sell_tax,
              max_profit_in_single_trade |-> st.max_profit,
              max_loss_in_single_trade |-> st.max_loss ],
          buy_records |-> st.buy_records,
          trade_profits |-> st.trade_profits ]

GetStatistics ==
    /\ stats' = get_statistics(portfolio)
    /\ UNCHANGED <<portfolio, calls, last, backtest>>

(***************************************************************************)
(* The reducer on the logs of the ledger: the client of Spec may also ask  *)
(* for the statistics.                                                     *)
(***************************************************************************)
LedgerStatsNext == Buy \/ Sell \/ Update \/ GetStatistics

LedgerStatsSpec == Init /\ [][LedgerStatsNext]_vars

(***************************************************************************)
(* The reducer as a function of the log.  StatsSpec hands get_statistics a *)
(* log of up to MaxRows buy and sell rows after the init row, whatever     *)
(* sequence of trades it spells; of a row the matching loop reads the      *)
(* action, the price and the share count, and the other columns are 0.     *)
(***************************************************************************)
MaxRows == 3

RowPrices == {10, 12, 15}

RowShareCounts == {50, 100, 150}

TradeRow(action, price, shares) ==
    [ date |-> 0, action |-> action, price |-> price, shares |-> shares,
      cost_or_income |-> 0, tax |-> 0, net |-> 0,
      cash_after |-> 0, position_after |-> 0,
      market_value_after |-> 0, total_assets_after |-> 0,
      cumulative_investment |-> 0, cumulative_pnl |-> 0 ]

TradeRows ==
    {TradeRow(a, p, s) : a \in {"buy", "sell"}, p \in RowPrices, s \in RowShareCounts}

StatsInit ==
    /\ \E initial_cash \in InitialCashes, n \in 0..MaxRows :
         \E rows \in [1..n -> TradeRows] :
           portfolio = [NewPortfolio(initial_cash, DefaultTaxConfig, 1)
                           EXCEPT !.transactions = @ \o rows]
    /\ calls = 0
    /\ last = Call("new", 0, 0, 0, portfolio, [ok |-> TRUE, msg |-> NoMsg])
    /\ stats = NoStats
    /\ backtest = NoBacktest

StatsNext == GetStatistics

StatsSpec == StatsInit /\ [][StatsNext]_vars

(***************************************************************************)
(* C16.  The reducer matches each sell against the open buy lots, oldest   *)
(* first: the realized profit of a sell is the sum over the lots it        *)
(* consumes of (sell_price - lot_price) * matched_shares, a lot consumed   *)
(* in full leaves the queue, and a lot consumed in part stays at the front *)
(* with its shares reduced.  Instance: buy 100@10, buy 100@12, sell 150@15 *)
(* realizes 650 and leaves one open lot of 50 shares at 12.                *)
(* The yardstick is a queue of single units of 50 shares, every share      *)
(* count of StatsSpec being a multiple of 50: a buy adds shares/50 units   *)
(* at its price, a sell takes units off the front and earns the price      *)
(* difference on each.                                                     *)
(***************************************************************************)
RECURSIVE C16_Repeat(_, _)
C16_Repeat(price, n) == IF n = 0 THEN << >> ELSE <<price>> \o C16_Repeat(price, n - 1)

RECURSIVE C16_Units(_)
C16_Units(lots) ==
    IF lots = << >> THEN << >>
    ELSE C16_Repeat(lots[1].price, lots[1].shares \div 50) \o C16_Units(Tail(lots))

RECURSIVE C16_UnitProfit(_, _, _)
C16_UnitProfit(queue, price, n) ==
    IF n = 0 THEN 0
    ELSE Yuan((price - queue[n]) * 50) + C16_UnitProfit(queue, price, n - 1)

RECURSIVE C16_ByUnits(_, _, _)
C16_ByUnits(df, i, st) ==
    IF i > Len(df) THEN st
    ELSE LET row == df[i]
             n == Min(row.shares \div 50, Len(st.queue))
         IN  IF row.action = "buy"
             THEN C16_ByUnits(df, i + 1,
                      [st EXCEPT !.queue = @ \o C16_Repeat(row.price, row.shares \div 50)])
             ELSE IF row.action = "sell" /\ n > 0
             THEN C16_ByUnits(df, i + 1,
                      [ queue |-> SubSeq(st.queue, n + 1, Len(st.queue)),
                        profits |-> Append(st.profits,
                                           C16_UnitProfit(st.queue, row.price, n)) ])
             ELSE C16_ByUnits(df, i + 1, st)

\* the buy rows of the log, in order
C16_BuyRows == SelectSeq(Transactions, LAMBDA r : r.action = "buy")

C16_FifoMatching ==
    stats.called =>
        LET units == C16_ByUnits(Transactions, 1, [queue |-> << >>, profits |-> << >>])
            lots == stats.buy_records
            k == Len(lots)
            b == Len(C16_BuyRows)
        IN  /\ stats.trade_profits = units.profits
            /\ C16_Units(lots) = units.queue
            \* the open lots are the latest buys, whole but for the one at the front
            /\ k <= b
            /\ \A j \in 1..k :
                   /\ lots[j].price = C16_BuyRows[b - k + j].price
                   /\ lots[j].shares > 0
                   /\ IF j = 1 THEN lots[j].shares <= C16_BuyRows[b - k + j].shares
                               ELSE lots[j].shares = C16_BuyRows[b - k + j].shares
            /\ Tail(Transactions) = << TradeRow("buy", 10, 100), TradeRow("buy", 12, 100),
                                       TradeRow("sell", 15, 150) >> =>
                   /\ stats.trade_profits = << Yuan(650) >>
                   /\ lots = << [price |-> 12, shares |-> 50] >>

\* the instance's log has been reduced
C16_Witness ==
    /\ stats.called
    /\ Tail(Transactions) = << TradeRow("buy", 10, 100), TradeRow("buy", 12, 100),
                               TradeRow("sell", 15, 150) >>
    /\ stats.trade_profits = << Yuan(650) >>

(***************************************************************************)
(* C17.  As claimed: max_profit_in_single_trade is the maximum and         *)
(* max_loss_in_single_trade the minimum of the realized profits of all     *)
(* sells of the log, and both are 0 when the log has no sell.  The code    *)
(* starts both at 0 (lines 252-253), so a log whose sells all lose reports *)
(* a maximum profit of 0, and one whose sells all gain a maximum loss of 0.*)
(***************************************************************************)
C17_Profits == {stats.trade_profits[i] : i \in 1..Len(stats.trade_profits)}

C17_Greatest(S) == CHOOSE x \in S : \A y \in S : y <= x

C17_Least(S) == CHOOSE x \in S : \A y \in S : x <= y

C17_MaxMinOfRealized ==
    stats.called =>
        IF C17_Profits = {}
        THEN /\ stats.report.max_profit_in_single_trade = 0
             /\ stats.report.max_loss_in_single_trade = 0
        ELSE /\ stats.report.max_profit_in_single_trade = C17_Greatest(C17_Profits)
             /\ stats.report.max_loss_in_single_trade = C17_Least(C17_Profits)

(***************************************************************************)
(* C17, amended.  max_profit_in_single_trade is the greatest of 0 and the  *)
(* realized profits of the sells, max_loss_in_single_trade the least of 0  *)
(* and the realized profits: never below 0, resp. never above 0, and both  *)
(* are 0 when the log has no sell.                                         *)
(***************************************************************************)
C17_MaxMinAgainstZero ==
    stats.called =>
        /\ stats.report.max_profit_in_single_trade = C17_Greatest(C17_Profits \cup {0})
        /\ stats.report.max_loss_in_single_trade = C17_Least(C17_Profits \cup {0})
        /\ C17_Profits = {} =>
               /\ stats.report.max_profit_in_single_trade = 0
               /\ stats.report.max_loss_in_single_trade = 0

\* the statistics of a ledger whose only sell lost money
C17_Witness ==
    /\ stats.called
    /\ stats.report.sell_count = 1
    /\ \E x \in C17_Profits : x < 0
    /\ stats.report.max_profit_in_single_trade = 0
    /\ stats.report.max_loss_in_single_trade < 0

(***************************************************************************)
(* Missing prices.  A missing close is the float NaN (pd.isna, line 318),  *)
(* held here as one number outside the range of every amount.  Arithmetic  *)
(* with NaN gives NaN and every comparison with NaN is false.              *)
(***************************************************************************)
NaN == -2000000000

isna(x) == x = NaN

FAdd(a, b) == IF isna(a) \/ isna(b) THEN NaN ELSE a + b

FSub(a, b) == IF isna(a) \/ isna(b) THEN NaN ELSE a - b

FLt(a, b) == ~isna(a) /\ ~isna(b) /\ a < b

\* price * shares as money; NaN * 0 is NaN
FYuan(price, shares) == IF isna(price) THEN NaN ELSE Yuan(price * shares)

\* calculate_buy_tax on a float price: max(NaN, min_commission) is NaN
buy_tax_float(tc, price, shares) ==
    IF isna(price) THEN NaN ELSE calculate_buy_tax(tc, price, shares)

\* calculate_sell_tax on a float price
sell_tax_float(tc, price, shares) ==
    IF isna(price) THEN NaN ELSE calculate_sell_tax(tc, price, shares)

\* one dictionary of self.transactions whose amounts may be NaN
FloatRecord(date, action, price, shares, amount, tax, net, cash, position, value, pnl, self) ==
    [ date |-> date, action |-> action, price |-> price, shares |-> shares,
      cost_or_income |-> amount, tax |-> tax, net |-> net,
      cash_after |-> cash, position_after |-> position,
      market_value_after |-> value, total_assets_after |-> FAdd(cash, value),
      cumulative_investment |-> self.total_investment, cumulative_pnl |-> pnl ]

\* what a call gives back: a returned result, or an exception out of the call
Returned(ret) ==
    [self |-> ret.self, ok |-> ret.ok, msg |-> ret.msg, raised |-> FALSE]

Raised(self, error) ==
    [self |-> self, ok |-> FALSE, msg |-> Msg(error, 0, 0, 0), raised |-> TRUE]

(***************************************************************************)
(* Portfolio.buy, sell and update where the price or the cash is NaN.      *)
(***************************************************************************)
\* lines 91-146.  Establishing: int(self.cash / price / 100) of NaN raises
\* ValueError (line 93) before anything is assigned.  Otherwise
\* total_cost > self.cash is false (line 104) and the requested count is
\* executed.
buy_float(self, date, price, shares) ==
    IF self.initial_buy
    THEN Raised(self, "ValueError")
    ELSE LET cost == FYuan(price, shares)
             tax == buy_tax_float(self.tax_config, price, shares)
             total_cost == FAdd(cost, tax)
             s1 == [self EXCEPT !.cash = FSub(@, total_cost),
                                !.position = @ + shares,
                                !.total_buy_cost = FAdd(@, cost),
                                !.total_buy_tax = FAdd(@, tax),
                                !.total_investment = FAdd(@, total_cost)]
             current_value == FYuan(price, s1.position)
             current_profit == FSub(current_value, s1.total_investment)
             s2 == [s1 EXCEPT !.transactions =
                        Append(@, FloatRecord(date, "buy", price, shares, cost, tax,
                                              total_cost, s1.cash, s1.position,
                                              current_value, current_profit, s1))]
         IN  Returned([self |-> s2, ok |-> TRUE, msg |-> Msg("buy_ok", shares, price, tax)])

\* lines 148-196
sell_float(self, date, price, requested) ==
    LET shares == sell_clamped_shares(self, requested)
    IN  IF shares <= 0
        THEN Returned(Failure(self, "insufficient_position"))
        ELSE LET income == FYuan(price, shares)
                 tax == sell_tax_float(self.tax_config, price, shares)
                 net_income == FSub(income, tax)
                 s1 == [self EXCEPT !.cash = FAdd(@, net_income),
                                    !.position = @ - shares,
                                    !.total_sell_income = FAdd(@, income),
                                    !.total_sell_tax = FAdd(@, tax),
                                    !.total_investment =
                                        IF FLt(FSub(@, net_income), 0) THEN 0
                                        ELSE FSub(@, net_income)]
                 current_value == FYuan(price, s1.position)
                 current_profit == FSub(FAdd(FSub(current_value, s1.total_investment),
                                             s1.total_sell_income), s1.total_buy_cost)
                 s2 == [s1 EXCEPT !.transactions =
                            Append(@, FloatRecord(date, "sell", price, shares, income, tax,
                                                  net_income, s1.cash, s1.position,
                                                  current_value, current_profit, s1))]
             IN  Returned([self |-> s2, ok |-> TRUE,
                           msg |-> Msg("sell_ok", shares, price, tax)])

\* lines 198-225
update_float(self, date, price) ==
    LET current_value == FYuan(price, self.position)
        current_profit == IF self.position > 0
                          THEN FSub(current_value, self.total_investment)
                          ELSE 0
    IN  Returned([ self |-> IF update_is_new_date(self, date)
                            THEN [self EXCEPT !.transactions =
                                      Append(@, FloatRecord(date, "hold", price, 0, 0, 0, 0,
                                                            self.cash, self.position,
                                                            current_value, current_profit,
                                                            self))]
                            ELSE self,
                   ok |-> TRUE, msg |-> NoMsg ])

\* the three methods on any float: the NaN path when the price or the cash is NaN
\* lines 93 and 106 divide by the price: at price 0 the establishing buy
\* raises ZeroDivisionError in the sizing, and any other buy raises it in the
\* insufficient-funds branch, before anything is assigned
buy_divides_by_zero(self, price, shares) ==
    /\ price = 0
    /\ \/ self.initial_buy
       \/ buy_total_cost(Yuan(0), calculate_buy_tax(self.tax_config, price, shares))
             > self.cash

portfolio_buy(self, date, price, shares) ==
    IF isna(price) \/ isna(self.cash)
    THEN buy_float(self, date, price, shares)
    ELSE IF buy_divides_by_zero(self, price, shares)
    THEN Raised(self, "ZeroDivisionError")
    ELSE Returned(buy(self, date, price, shares))

portfolio_sell(self, date, price, shares) ==
    IF isna(price) \/ isna(self.cash)
    THEN sell_float(self, date, price, shares)
    ELSE Returned(sell(self, date, price, shares))

portfolio_update(self, date, price) ==
    IF isna(price) \/ isna(self.cash)
    THEN update_float(self, date, price)
    ELSE Returned(update(self, date, price))

(***************************************************************************)
(* TradingSystem.run_backtest.  backtest holds the frame of one call: the  *)
(* series data (rows of date and close, indexed from 0 as iloc does), the  *)
(* array signals the strategy returned for it, the program counter pc, the *)
(* loop index i, first_valid_idx, the ledger calls made so far (trace) and *)
(* the returned log (result).                                              *)
(***************************************************************************)
\* the longest series
MaxBars == 3

\* close prices of a bar, missing or not
Closes == {NaN, 10, 20}

\* entries of the signal array
Signals == {-1000, 0, 100}

BacktestCashes == {Yuan(1003), Yuan(100000)}

\* data.iloc[i]
iloc(data, i) == data[i + 1]

\* mutant: no search, the first bar is taken
first_valid_scan_NoSearch(data, i) == 0

\* lines 315-319: the index of the first bar from i on whose close is not
\* missing, 0 when there is none
RECURSIVE first_valid_scan(_, _)
first_valid_scan(data, i) ==
    IF i >= Len(data) THEN 0
    ELSE IF ~isna(iloc(data, i).close) THEN i
    ELSE first_valid_scan(data, i + 1)

\* an entry of the trace: the bar and the call made for it
LedgerCall(bar, op, date, price, shares) ==
    [bar |-> bar, op |-> op, date |-> date, price |-> price, shares |-> shares]

\* TradingSystem(strategy, initial_cash) on the day after the last bar of the
\* series it is about to be run on; the strategy's signals for the series
\* are any array of its length
BacktestInit ==
    /\ \E n \in 0..MaxBars :
         \E closes \in [1..n -> Closes], signals \in [1..n -> Signals] :
            backtest = [ pc |-> "called",
                         data |-> [k \in 1..n |-> [date |-> k, close |-> closes[k]]],
                         signals |-> signals,
                         i |-> 0, first_valid_idx |-> 0,
                         trace |-> << >>, result |-> << >> ]
    /\ \E initial_cash \in BacktestCashes :
           portfolio = NewPortfolio(initial_cash, DefaultTaxConfig,
                                    Len(backtest.data) + 1)
    /\ calls = 0
    /\ last = Call("new", 0, 0, 0, portfolio, [ok |-> TRUE, msg |-> NoMsg])
    /\ stats = NoStats

\* lines 312-319: the signals are generated and the first valid bar is looked for
FindFirstValid ==
    /\ backtest.pc = "called"
    /\ backtest' = [backtest EXCEPT !.pc = "establish",
                                    !.first_valid_idx = first_valid_scan(backtest.data, 0)]
    /\ UNCHANGED <<portfolio, calls, last, stats>>

\* lines 322-324: data.iloc[first_valid_idx] raises IndexError on an empty
\* series; otherwise the establishing buy
Establish ==
    /\ backtest.pc = "establish"
    /\ IF backtest.first_valid_idx >= Len(backtest.data)
       THEN /\ backtest' = [backtest EXCEPT !.pc = "raised"]
            /\ UNCHANGED <<portfolio, calls, last>>
       ELSE LET idx == backtest.first_valid_idx
                date == iloc(backtest.data, idx).date
                price == iloc(backtest.data, idx).close
                ret == portfolio_buy(portfolio, date, price, LotSize)
            IN  /\ portfolio' = ret.self
                /\ last' = Call("buy", date, price, LotSize, portfolio, ret)
                /\ calls' = calls + 1
                /\ backtest' = [backtest EXCEPT
                       !.pc = IF ret.raised THEN "raised" ELSE "bars",
                       !.i = idx + 1,
                       !.trace = Append(@, LedgerCall(idx, "buy", date, price, LotSize))]
    /\ UNCHANGED stats

\* lines 327-338: one pass of the loop
Bar ==
    /\ backtest.pc = "bars"
    /\ backtest.i < Len(backtest.data)
    /\ LET i == backtest.i
           date == iloc(backtest.data, i).date
           price == iloc(backtest.data, i).close
           signal == backtest.signals[i + 1]
           op == IF signal > 0 THEN "buy" ELSE IF signal < 0 THEN "sell" ELSE "update"
           shares == IF signal > 0 THEN signal ELSE IF signal < 0 THEN -signal ELSE 0
           ret == IF signal > 0 THEN portfolio_buy(portfolio, date, price, signal)
                  ELSE IF signal < 0 THEN portfolio_sell(portfolio, date, price, -signal)
                  ELSE portfolio_update(portfolio, date, price)
       IN  /\ portfolio' = ret.self
           /\ last' = Call(op, date, price, shares, portfolio, ret)
           /\ backtest' = [backtest EXCEPT
                  !.pc = IF ret.raised THEN "raised" ELSE "bars",
                  !.i = i + 1,
                  !.trace = Append(@, LedgerCall(i, op, date, price, shares))]
    /\ calls' = calls + 1
    /\ UNCHANGED stats

\* line 340
Return ==
    /\ backtest.pc = "bars"
    /\ backtest.i >= Len(backtest.data)
    /\ backtest' = [backtest EXCEPT !.pc = "returned",
                                    !.result = portfolio.transactions]
    /\ UNCHANGED <<portfolio, calls, last, stats>>

BacktestNext == FindFirstValid \/ Establish \/ Bar \/ Return

BacktestSpec == BacktestInit /\ [][BacktestNext]_vars

\* the run is over: the log was returned or an exception left run_backtest
Finished == backtest.pc \in {"returned", "raised"}

\* the indices of the bars with a close
ValidBars == {i \in 0..(Len(backtest.data) - 1) : ~isna(iloc(backtest.data, i).close)}

\* the first of them
FirstValidBar == CHOOSE i \in ValidBars : \A j \in ValidBars : i <= j

(***************************************************************************)
(* C18.  run_backtest establishes the initial position with a buy at the   *)
(* first bar whose close is not missing: on a series that has such a bar,  *)
(* the first ledger call is buy(date, close, 100) with that bar's date and *)
(* close, made while initial_buy is set; no call is made for an earlier    *)
(* bar, whose closes are all missing, and none before the search is done.  *)
(***************************************************************************)
C18_EstablishAtFirstValidBar ==
    ValidBars # {} =>
        IF backtest.pc \in {"called", "establish"}
        THEN backtest.trace = << >>
        ELSE /\ backtest.trace # << >>
             /\ backtest.trace[1] =
                    LedgerCall(FirstValidBar, "buy",
                               iloc(backtest.data, FirstValidBar).date,
                               iloc(backtest.data, FirstValidBar).close, LotSize)
             /\ ~isna(backtest.trace[1].price)
             /\ \A k \in 2..Len(backtest.trace) : backtest.trace[k].bar > FirstValidBar
             /\ Len(backtest.trace) = 1 =>
                    /\ last.op = "buy"
                    /\ last.pre.initial_buy
                    /\ last.pre.transactions = <<InitRecord(Len(backtest.data) + 1,
                                                            last.pre.initial_cash)>>

\* a series that starts with missing closes, just after the position was established
C18_Witness ==
    /\ ValidBars # {}
    /\ FirstValidBar > 0
    /\ backtest.pc = "bars"
    /\ Len(backtest.trace) = 1
    /\ backtest.trace[1].bar = FirstValidBar
    /\ portfolio.position > 0

(***************************************************************************)
(* C19.  As claimed: for every bar after the first valid bar run_backtest  *)
(* makes exactly one ledger call, in ascending bar order, buy(date, price, *)
(* signal) on a signal > 0, sell(date, price, |signal|) on a signal < 0,   *)
(* update(date, price) on a signal of 0, and after the last bar it returns *)
(* the log.                                                                *)
(***************************************************************************)
C19_ExpectedCall(i) ==
    LET row == iloc(backtest.data, i)
        signal == backtest.signals[i + 1]
    IN  IF signal > 0 THEN LedgerCall(i, "buy", row.date, row.close, signal)
        ELSE IF signal < 0 THEN LedgerCall(i, "sell", row.date, row.close, -signal)
        ELSE LedgerCall(i, "update", row.date, row.close, 0)

C19_OneCallPerBar ==
    (ValidBars # {} /\ Finished) =>
        /\ backtest.pc = "returned"
        /\ backtest.result = portfolio.transactions
        /\ Len(backtest.trace) = Len(backtest.data) - FirstValidBar
        /\ \A k \in 2..Len(backtest.trace) :
               backtest.trace[k] = C19_ExpectedCall(FirstValidBar + k - 1)

(***************************************************************************)
(* What holds of the loop: the calls made are the expected ones, one per   *)
(* bar in ascending order, up to a call that raises; the run is cut short  *)
(* only by a buy at a bar with a missing close while initial_buy is still  *)
(* set, and otherwise ends by returning the log after the last bar.        *)
(***************************************************************************)
C19_OneCallPerBarUntilRaised ==
    (ValidBars # {} /\ backtest.pc \in {"bars", "returned", "raised"}) =>
        /\ Len(backtest.trace) <= Len(backtest.data) - FirstValidBar
        /\ \A k \in 2..Len(backtest.trace) :
               backtest.trace[k] = C19_ExpectedCall(FirstValidBar + k - 1)
        /\ backtest.pc = "returned" =>
               /\ Len(backtest.trace) = Len(backtest.data) - FirstValidBar
               /\ backtest.result = portfolio.transactions
        /\ backtest.pc = "raised" =>
               /\ last.op = "buy"
               /\ isna(last.price)
               /\ last.pre.initial_buy
               /\ portfolio = last.pre

\* a run cut short before its last bar
C19_RunCutShort ==
    /\ ValidBars # {}
    /\ backtest.pc = "raised"
    /\ Len(backtest.trace) < Len(backtest.data) - FirstValidBar

(***************************************************************************)
(* C20.  As claimed: on a series in which no bar has a valid close (every  *)
(* close missing, or the series empty) run_backtest returns a log that     *)
(* holds only the init record, without raising.                            *)
(***************************************************************************)
C20_NoValidCloseReturnsInitOnly ==
    (ValidBars = {} /\ Finished) =>
        /\ backtest.pc = "returned"
        /\ Len(backtest.result) = 1
        /\ backtest.result[1].action = "init"

(***************************************************************************)
(* What holds instead: on such a series run_backtest always raises, at     *)
(* data.iloc[0] when the series is empty and in the establishing buy of    *)
(* bar 0 otherwise; the ledger's log is left with the init record alone.   *)
(***************************************************************************)
C20_NoValidCloseRaises ==
    (ValidBars = {} /\ Finished) =>
        /\ backtest.pc = "raised"
        /\ backtest.result = << >>
        /\ Len(portfolio.transactions) = 1
        /\ portfolio.transactions[1].action = "init"
        /\ backtest.data # << >> =>
               backtest.trace = <<LedgerCall(0, "buy", iloc(backtest.data, 0).date, NaN, LotSize)>>

(***************************************************************************)
(* C28.  As claimed: the establishing buy never takes the                  *)
(* insufficient-funds branch, its sized share count                        *)
(* floor(cash / price / 100) * 100 always satisfying                       *)
(* price * shares + buy_tax(price, shares) <= cash.                        *)
(***************************************************************************)
\* floor(cash / price / 100) * 100 on the ledger the last call was made on
C28_SizedShares == (Pre.cash \div (Yuan(last.price) * 100)) * 100

\* the last call was an establishing buy that got past the sizing
C28_Establishing ==
    /\ last.op = "buy"
    /\ Pre.initial_buy
    /\ C28_SizedShares > 0

C28_EstablishingBuyFits ==
    C28_Establishing =>
        Yuan(last.price * C28_SizedShares)
          + calculate_buy_tax(Pre.tax_config, last.price, C28_SizedShares) <= Pre.cash

\* what holds: the sized count fits when the fee schedule charges nothing
C28_FitsWithoutFees ==
    (C28_Establishing /\ Pre.tax_config = ZeroTaxConfig) =>
        /\ last.ok
        /\ LastRecord.shares = C28_SizedShares
        /\ portfolio.cash >= 0

\* an establishing buy that took the insufficient-funds branch and was shrunk
C28_EstablishingShrunk ==
    /\ C28_Establishing
    /\ last.ok
    /\ LastRecord.shares < C28_SizedShares

(***************************************************************************)
(* C29.  As claimed: when a buy takes the insufficient-funds branch and    *)
(* the recomputed share count is not zero, that count is affordable: its   *)
(* price * shares + buy_tax(price, shares), minimum commission included,   *)
(* does not exceed cash, and the debit leaves cash >= 0.                   *)
(***************************************************************************)
\* the share count a buy starts from: the sized one when establishing
C29_StartShares == IF Pre.initial_buy THEN C28_SizedShares ELSE last.shares

\* the last call was a buy that took the branch total_cost > self.cash and
\* went through with a recomputed share count
C29_Shrunk ==
    /\ last.op = "buy"
    /\ last.ok
    /\ Yuan(last.price * C29_StartShares)
         + calculate_buy_tax(Pre.tax_config, last.price, C29_StartShares) > Pre.cash

C29_ShrunkCountAffordable ==
    C29_Shrunk =>
        /\ LastRecord.shares > 0
        /\ Yuan(last.price * LastRecord.shares)
             + calculate_buy_tax(Pre.tax_config, last.price, LastRecord.shares) <= Pre.cash
        /\ portfolio.cash >= 0

\* what holds: the recomputed count is affordable at the proportional rates,
\* the minimum commission left out
C29_AffordableAtRates ==
    C29_Shrunk =>
        /\ LastRecord.shares > 0
        /\ Yuan(last.price * LastRecord.shares)
             + RateOf(last.price * LastRecord.shares,
                      Pre.tax_config.buy.commission + Pre.tax_config.buy.transfer_fee)
             <= Pre.cash

(***************************************************************************)
(* The ledger at prices that are small against the minimum commission.     *)
(* Portfolio takes any fee schedule (tax_config, line 23); with a minimum  *)
(* commission of 500 the prices 5 and 90 stand to it as the prices 0.05    *)
(* and 0.90 stand to the default minimum of 5: the same ledger with every  *)
(* amount counted in hundredths.                                           *)
(***************************************************************************)
HighMinimumTaxConfig == [DefaultTaxConfig EXCEPT !.min_commission = Yuan(500)]

CheapPrices == {5, 90}

CheapCashes == {Yuan(10100), Yuan(100000)}

CheapInit ==
    /\ \E initial_cash \in CheapCashes, today \in Dates :
           portfolio = NewPortfolio(initial_cash, HighMinimumTaxConfig, today)
    /\ calls = 0
    /\ last = Call("new", 0, 0, 0, portfolio, [ok |-> TRUE, msg |-> NoMsg])
    /\ stats = NoStats
    /\ backtest = NoBacktest

CheapBuy ==
    /\ calls < MaxCalls
    /\ \E date \in Dates, price \in CheapPrices, shares \in ShareCounts :
           LET ret == buy(portfolio, date, price, shares)
           IN  /\ portfolio' = ret.self
               /\ last' = Call("buy", date, price, shares, portfolio, ret)
    /\ calls' = calls + 1
    /\ UNCHANGED <<stats, backtest>>

CheapSell ==
    /\ calls < MaxCalls
    /\ \E date \in Dates, price \in CheapPrices, shares \in ShareCounts :
           LET ret == sell(portfolio, date, price, shares)
           IN  /\ portfolio' = ret.self
               /\ last' = Call("sell", date, price, shares, portfolio, ret)
    /\ calls' = calls + 1
    /\ UNCHANGED <<stats, backtest>>

CheapUpdate ==
    /\ calls < MaxCalls
    /\ \E date \in Dates, price \in CheapPrices :
           LET ret == update(portfolio, date, price)
           IN  /\ portfolio' = ret.self
               /\ last' = Call("update", date, price, 0, portfolio, ret)
    /\ calls' = calls + 1
    /\ UNCHANGED <<stats, backtest>>

CheapNext == CheapBuy \/ CheapSell \/ CheapUpdate

CheapSpec == CheapInit /\ [][CheapNext]_vars

(***************************************************************************)
(* C30.  As claimed: a successful non-establishing buy(date, price,        *)
(* shares) never executes more shares than requested; the share count of   *)
(* its record is <= the shares argument.                                   *)
(***************************************************************************)
C30_NoMoreThanRequested ==
    (last.op = "buy" /\ ~Pre.initial_buy /\ last.ok) =>
        /\ LastRecord.action = "buy"
        /\ LastRecord.shares <= last.shares

\* what holds at every price: a buy that does not take the insufficient-funds
\* branch executes the requested count
C30_RequestedWhenFunded ==
    ( /\ last.op = "buy" /\ ~Pre.initial_buy /\ last.ok
      /\ Yuan(last.price * last.shares)
           + calculate_buy_tax(Pre.tax_config, last.price, last.shares) <= Pre.cash ) =>
        LastRecord.shares = last.shares

\* a non-establishing buy that executed more than it was asked for
C30_Enlarged ==
    /\ last.op = "buy" /\ ~Pre.initial_buy /\ last.ok
    /\ LastRecord.shares > last.shares
    /\ portfolio.cash < 0

(***************************************************************************)
(* The ledger called with any non-negative price and share count, 0        *)
(* included.  A call that raises leaves the ledger to its caller as it     *)
(* was; last.msg then names the exception.                                 *)
(***************************************************************************)
EdgePrices == {0, 10}

EdgeShareCounts == {0, 100}

Exceptions == {"ZeroDivisionError", "ValueError"}

EdgeBuy ==
    /\ calls < MaxCalls
    /\ \E date \in Dates, price \in EdgePrices, shares \in EdgeShareCounts :
           LET ret == portfolio_buy(portfolio, date, price, shares)
           IN  /\ portfolio' = ret.self
               /\ last' = Call("buy", date, price, shares, portfolio, ret)
    /\ calls' = calls + 1
    /\ UNCHANGED <<stats, backtest>>

EdgeSell ==
    /\ calls < MaxCalls
    /\ \E date \in Dates, price \in EdgePrices, shares \in EdgeShareCounts :
           LET ret == portfolio_sell(portfolio, date, price, shares)
           IN  /\ portfolio' = ret.self
               /\ last' = Call("sell", date, price, shares, portfolio, ret)
    /\ calls' = calls + 1
    /\ UNCHANGED <<stats, backtest>>

EdgeUpdate ==
    /\ calls < MaxCalls
    /\ \E date \in Dates, price \in EdgePrices :
           LET ret == portfolio_update(portfolio, date, price)
           IN  /\ portfolio' = ret.self
               /\ last' = Call("update", date, price, 0, portfolio, ret)
    /\ calls' = calls + 1
    /\ UNCHANGED <<stats, backtest>>

EdgeNext == EdgeBuy \/ EdgeSell \/ EdgeUpdate

EdgeSpec == Init /\ [][EdgeNext]_vars

(***************************************************************************)
(* C23.  As claimed: buy, sell and update never raise; for every date,     *)
(* every non-negative price (0 included) and every non-negative share      *)
(* count, in every reachable ledger state, buy and sell return a           *)
(* (success, message) result.                                              *)
(***************************************************************************)
C23_NeverRaises ==
    /\ last.msg.kind \notin Exceptions
    /\ last.op = "buy" =>
           last.msg.kind \in {"buy_ok", "insufficient_initial_capital", "insufficient_funds"}
    /\ last.op = "sell" =>
           last.msg.kind \in {"sell_ok", "insufficient_position"}

\* what holds: only a buy at price 0 raises, when it is the establishing buy or
\* when it takes the insufficient-funds branch, and it leaves the ledger as it
\* was; sell and update never raise, nor does buy at a positive price or with
\* a share count of 0
C23_OnlyBuyAtPriceZeroRaises ==
    last.msg.kind \in Exceptions =>
        /\ last.op = "buy"
        /\ last.price = 0
        /\ last.msg.kind = "ZeroDivisionError"
        /\ Pre.initial_buy \/ Pre.cash < Pre.tax_config.min_commission
        /\ portfolio = Pre

\* a buy at price 0 that did not raise: shares for the minimum commission
C23_BoughtAtPriceZero ==
    /\ last.op = "buy" /\ last.price = 0 /\ last.ok
    /\ LastRecord.shares = 100
    /\ Pre.cash - portfolio.cash = LastRecord.tax

(***************************************************************************)
(* Construction with any configuration.  Portfolio.__init__ (lines 23-67)  *)
(* and TradingSystem.__init__ (lines 306-308) store initial_cash and       *)
(* tax_config as they come, without a test.                                *)
(***************************************************************************)
NegativeRateTaxConfig ==
    [DefaultTaxConfig EXCEPT !.buy.commission = -30, !.sell.transfer_fee = -2]

ConfigCashes == {Yuan(-1000), Yuan(100000)}

ConfigTaxConfigs == {DefaultTaxConfig, NegativeRateTaxConfig}

ConfigInit ==
    /\ \E initial_cash \in ConfigCashes, tc \in ConfigTaxConfigs, today \in Dates :
           portfolio = NewPortfolio(initial_cash, tc, today)
    /\ calls = 0
    /\ last = Call("new", 0, 0, 0, portfolio, [ok |-> TRUE, msg |-> NoMsg])
    /\ stats = NoStats
    /\ backtest = NoBacktest

ConfigSpec == ConfigInit /\ [][Next]_vars

\* the configuration of a ledger has no negative amount or rate
C24_ValidConfig(self) ==
    /\ self.initial_cash >= 0
    /\ self.tax_config.min_commission >= 0
    /\ \A side \in {"buy", "sell"} :
           \A fee \in DOMAIN self.tax_config[side] : self.tax_config[side][fee] >= 0

(***************************************************************************)
(* C24.  As claimed: a ledger constructed with a negative initial_cash or  *)
(* a negative fee rate is rejected before any bar is processed; no such    *)
(* ledger ever executes buy, sell or update.                               *)
(***************************************************************************)
C24_NegativeConfigRejected ==
    last.op \in {"buy", "sell", "update"} => C24_ValidConfig(Pre)

\* what holds: a ledger with negative initial_cash is constructed and called
\* like any other, but never trades; its buys are refused for insufficient
\* initial capital and update logs its negative assets
C24_NegativeCashNeverTrades ==
    portfolio.initial_cash < 0 =>
        /\ portfolio.cash = portfolio.initial_cash
        /\ portfolio.position = 0
        /\ portfolio.initial_buy
        /\ last.op = "buy" => last.msg.kind = "insufficient_initial_capital"
        /\ \A i \in 1..Len(Transactions) : Transactions[i].action \in {"init", "hold"}

\* a ledger with a negative rate has sold and was charged less than the
\* default schedule charges
C24_NegativeRateCharged ==
    /\ last.op = "sell" /\ last.ok
    /\ Pre.tax_config = NegativeRateTaxConfig
    /\ LastRecord.tax < calculate_sell_tax(DefaultTaxConfig, last.price, LastRecord.shares)

(***************************************************************************)
(* The strategies of strategy_impl.py.  A computed column (a moving        *)
(* average, a rate of change) holds exact quotients: num / den, and NaN    *)
(* as the quotient with den = 0.  Closes are positive, so every den of a   *)
(* number is positive and two quotients are compared by cross-multiplying. *)
(***************************************************************************)
Ratio(num, den) == [num |-> num, den |-> den]

RatioNaN == Ratio(0, 0)

\* a < b, a <= b on floats: false when either is NaN
RatioLt(a, b) == a.den > 0 /\ b.den > 0 /\ a.num * b.den < b.num * a.den

RatioLe(a, b) == a.den > 0 /\ b.den > 0 /\ a.num * b.den <= b.num * a.den

\* -a
RatioNeg(a) == Ratio(-a.num, a.den)

\* data[name] = values: the table with the column added or overwritten
with_column(data, name, values) ==
    [k \in 1..Len(data) |->
        [f \in (DOMAIN data[k]) \cup {name} |->
            IF f = name THEN values[k] ELSE data[k][f]]]

\* data[price_col], lines 15-17
close_column(data) == [k \in 1..Len(data) |-> data[k].close]

\* Series.rolling(window).mean() at index i: NaN until the window is full and
\* when a close of the window is missing
rolling_mean_at(closes, window, i) ==
    IF i + 1 < window \/ \E k \in (i - window + 1)..i : isna(closes[k + 1])
    THEN RatioNaN
    ELSE Ratio(SeqSum(SubSeq(closes, i - window + 2, i + 1)), window)

rolling_mean(closes, window) ==
    [k \in 1..Len(closes) |-> rolling_mean_at(closes, window, k - 1)]

\* Series.ffill(): a missing close is replaced by the last one before it
RECURSIVE ffill_at(_, _)
ffill_at(closes, i) ==
    IF i < 0 THEN NaN
    ELSE IF ~isna(closes[i + 1]) THEN closes[i + 1]
    ELSE ffill_at(closes, i - 1)

\* Series.pct_change(periods) at index i: close[i] / close[i - periods] - 1.
\* pandas fills the missing closes forward first when its fill_method is
\* 'pad', the default up to pandas 2, and does not from pandas 3 on
pct_change_at(closes, periods, pad, i) ==
    LET cur == IF pad THEN ffill_at(closes, i) ELSE closes[i + 1]
        prev == IF i < periods THEN NaN
                ELSE IF pad THEN ffill_at(closes, i - periods)
                ELSE closes[i - periods + 1]
    IN  IF isna(cur) \/ isna(prev) THEN RatioNaN ELSE Ratio(cur - prev, prev)

pct_change(closes, periods, pad) ==
    [k \in 1..Len(closes) |-> pct_change_at(closes, periods, pad, k - 1)]

\* np.zeros(len(data))
zeros(n) == [k \in 1..n |-> 0]

\* mutant: the bar before is not looked at, and a signal is given whenever
\* the short average is off the long one
ma_cross_signal_NoPreviousBar(prev_short, prev_long, short, long, position, buy_shares) ==
    IF RatioLt(long, short) /\ position = 0 THEN buy_shares
    ELSE IF RatioLt(short, long) /\ position > 0 THEN -position
    ELSE 0

\* mutant: the averages are not looked at, buys and sells alternate
ma_cross_signal_Alternate(prev_short, prev_long, short, long, position, buy_shares) ==
    IF position = 0 THEN buy_shares ELSE -position

\* strategy_impl.py lines 29-40: the signal of one bar, 0 when neither test holds
ma_cross_signal(prev_short, prev_long, short, long, position, buy_shares) ==
    IF RatioLe(prev_short, prev_long) /\ RatioLt(long, short) /\ position = 0
    THEN buy_shares
    ELSE IF RatioLe(prev_long, prev_short) /\ RatioLt(short, long) /\ position > 0
    THEN -position
    ELSE 0

\* strategy_impl.py lines 24-42: the loop over range(long_window, len(data)),
\* reading the two columns of the table
RECURSIVE ma_cross_loop(_, _, _, _, _)
ma_cross_loop(data, strategy, i, position, signals) ==
    IF i >= Len(data) THEN signals
    ELSE LET signal == ma_cross_signal(iloc(data, i - 1).short_ma,
                                       iloc(data, i - 1).long_ma,
                                       iloc(data, i).short_ma,
                                       iloc(data, i).long_ma,
                                       position, strategy.buy_shares)
         IN  ma_cross_loop(data, strategy, i + 1, position + signal,
                           IF signal = 0 THEN signals
                           ELSE [signals EXCEPT ![i + 1] = signal])

\* mutant: a strong momentum buys again while a position is held
momentum_signal_BuysAgain(momentum, threshold, position, buy_shares) ==
    IF RatioLt(threshold, momentum) THEN buy_shares
    ELSE IF RatioLt(momentum, RatioNeg(threshold)) /\ position > 0 THEN -position
    ELSE 0

\* strategy_impl.py lines 71-78
momentum_signal(momentum, threshold, position, buy_shares) ==
    IF RatioLt(threshold, momentum) /\ position = 0 THEN buy_shares
    ELSE IF RatioLt(momentum, RatioNeg(threshold)) /\ position > 0 THEN -position
    ELSE 0

\* strategy_impl.py lines 66-80: the loop over range(momentum_window + 1, len(data))
RECURSIVE momentum_loop(_, _, _, _, _)
momentum_loop(data, strategy, i, position, signals) ==
    IF i >= Len(data) THEN signals
    ELSE LET signal == momentum_signal(iloc(data, i).momentum, strategy.threshold,
                                       position, strategy.buy_shares)
         IN  momentum_loop(data, strategy, i + 1, position + signal,
                           IF signal = 0 THEN signals
                           ELSE [signals EXCEPT ![i + 1] = signal])

\* strategy_impl.py lines 20-21 and line 63: the columns a strategy writes
\* into the table it is given
strategy_columns(strategy, data) ==
    IF strategy.kind = "MACross"
    THEN with_column(
             with_column(data, "short_ma",
                         rolling_mean(close_column(data), strategy.short_window)),
             "long_ma", rolling_mean(close_column(data), strategy.long_window))
    ELSE with_column(data, "momentum",
                     pct_change(close_column(data), strategy.momentum_window,
                                strategy.pad))

\* generate_signals of either strategy: the table as it is left, and the signals
generate_signals(strategy, data) ==
    LET table == strategy_columns(strategy, data)
    IN  [ data |-> table,
          signals |-> IF strategy.kind = "MACross"
                      THEN ma_cross_loop(table, strategy, strategy.long_window, 0,
                                         zeros(Len(data)))
                      ELSE momentum_loop(table, strategy, strategy.momentum_window + 1, 0,
                                         zeros(Len(data))) ]

\* MACrossStrategy(short_window, long_window, buy_shares)
MACrossStrategy(short_window, long_window, buy_shares) ==
    [ kind |-> "MACross", short_window |-> short_window, long_window |-> long_window,
      momentum_window |-> 0, threshold |-> RatioNaN, pad |-> FALSE,
      buy_shares |-> buy_shares ]

\* MomentumStrategy(momentum_window, threshold, buy_shares), and the
\* fill_method of the pandas it runs on
MomentumStrategy(momentum_window, threshold, buy_shares, pad) ==
    [ kind |-> "Momentum", short_window |-> 0, long_window |-> 0,
      momentum_window |-> momentum_window, threshold |-> threshold, pad |-> pad,
      buy_shares |-> buy_shares ]

(***************************************************************************)
(* run_backtest with one of the two strategies.                            *)
(***************************************************************************)
\* the longest series given to a strategy
MaxSeries == 5

SeriesCloses == {NaN, 10, 20, 30, 40}

Strategies ==
    {MACrossStrategy(1, 2, 100), MACrossStrategy(2, 3, 100)}
      \cup {MomentumStrategy(w, Ratio(5, 100), 100, pad) : w \in {1, 2}, pad \in BOOLEAN}

StrategyInit ==
    /\ \E n \in 0..MaxSeries :
         \E closes \in [1..n -> SeriesCloses], strategy \in Strategies :
            backtest = [ pc |-> "constructed",
                         strategy |-> strategy,
                         data |-> [k \in 1..n |-> [date |-> k, close |-> closes[k]]],
                         signals |-> << >>,
                         i |-> 0, first_valid_idx |-> 0,
                         trace |-> << >>, result |-> << >> ]
    /\ portfolio = NewPortfolio(Yuan(100000), DefaultTaxConfig, Len(backtest.data) + 1)
    /\ calls = 0
    /\ last = Call("new", 0, 0, 0, portfolio, [ok |-> TRUE, msg |-> NoMsg])
    /\ stats = NoStats

\* trading_system.py line 312
GenerateSignals ==
    /\ backtest.pc = "constructed"
    /\ LET ret == generate_signals(backtest.strategy, backtest.data)
       IN  backtest' = [backtest EXCEPT !.pc = "called",
                                        !.data = ret.data,
                                        !.signals = ret.signals]
    /\ UNCHANGED <<portfolio, calls, last, stats>>

StrategyNext == GenerateSignals \/ FindFirstValid \/ Establish \/ Bar \/ Return

StrategySpec == StrategyInit /\ [][StrategyNext]_vars

\* the strategy has run: the signals are there
Generated == backtest.pc # "constructed"

\* the close of bar i and the signal of bar i, bars counted from 0
CloseAt(i) == iloc(backtest.data, i).close

SignalAt(i) == backtest.signals[i + 1]

\* the bars of the series
Bars == 0..(Len(backtest.data) - 1)

\* the strategy is in position at bar i: the last signal before bar i that is
\* not 0 is a buy
InPositionAt(i) ==
    \E j \in 0..(i - 1) :
        /\ SignalAt(j) > 0
        /\ \A k \in (j + 1)..(i - 1) : SignalAt(k) = 0

\* the position the strategy tracks at bar i: what that buy signalled
TrackedAt(i) ==
    LET j == CHOOSE j \in 0..(i - 1) :
                 SignalAt(j) # 0 /\ \A k \in (j + 1)..(i - 1) : SignalAt(k) = 0
    IN  SignalAt(j)

(***************************************************************************)
(* C25.  MACrossStrategy.generate_signals returns an array of the length   *)
(* of the series; every index below long_window is 0, and at an index      *)
(* i >= long_window the entry is +buy_shares when short MA[i-1] <= long    *)
(* MA[i-1], short MA[i] > long MA[i] and the strategy is not in position,  *)
(* minus the tracked position when short MA[i-1] >= long MA[i-1], short    *)
(* MA[i] < long MA[i] and it is in position, and 0 otherwise.  MA[i] of a  *)
(* window w is the mean of the closes i-w+1..i; a comparison with an       *)
(* average that has a missing close in its window does not hold.           *)
(***************************************************************************)
RECURSIVE C25_CloseSum(_, _)
C25_CloseSum(lo, hi) == IF lo > hi THEN 0 ELSE CloseAt(hi) + C25_CloseSum(lo, hi - 1)

\* MA[i] of window w is defined
C25_Defined(w, i) == i - w + 1 >= 0 /\ \A k \in (i - w + 1)..i : ~isna(CloseAt(k))

\* MA[i] of window a <= MA[i] of window b, and the same with <
C25_MaLe(a, b, i) ==
    /\ C25_Defined(a, i) /\ C25_Defined(b, i)
    /\ C25_CloseSum(i - a + 1, i) * b <= C25_CloseSum(i - b + 1, i) * a

C25_MaLt(a, b, i) ==
    /\ C25_Defined(a, i) /\ C25_Defined(b, i)
    /\ C25_CloseSum(i - a + 1, i) * b < C25_CloseSum(i - b + 1, i) * a

C25_Expected(i) ==
    LET S == backtest.strategy.short_window
        L == backtest.strategy.long_window
    IN  IF i < L THEN 0
        ELSE IF C25_MaLe(S, L, i - 1) /\ C25_MaLt(L, S, i) /\ ~InPositionAt(i)
        THEN backtest.strategy.buy_shares
        ELSE IF C25_MaLe(L, S, i - 1) /\ C25_MaLt(S, L, i) /\ InPositionAt(i)
        THEN -TrackedAt(i)
        ELSE 0

C25_MACrossSignals ==
    (Generated /\ backtest.strategy.kind = "MACross") =>
        /\ Len(backtest.signals) = Len(backtest.data)
        /\ \A i \in Bars : SignalAt(i) = C25_Expected(i)

\* a series on which the averages cross upwards and then downwards
C25_Witness ==
    /\ Generated /\ backtest.strategy.kind = "MACross"
    /\ \E i, j \in Bars : i < j /\ SignalAt(i) > 0 /\ SignalAt(j) = -SignalAt(i)
    /\ \E i \in Bars : isna(CloseAt(i))

(***************************************************************************)
(* C26.  As claimed: MomentumStrategy.generate_signals returns an array of *)
(* the length of the series; every index below momentum_window + 1 is 0,   *)
(* and at an index i >= momentum_window + 1, with momentum[i] =            *)
(* close[i] / close[i - momentum_window] - 1, the entry is +buy_shares     *)
(* when momentum[i] > threshold and the strategy is not in position, minus *)
(* the tracked position when momentum[i] < -threshold and it is in         *)
(* position, and 0 otherwise.  A momentum with a missing close is          *)
(* undefined and compares with nothing.                                    *)
(***************************************************************************)
\* close[i] / close[i - w] - 1 > threshold, resp. < -threshold, for the closes
\* cur and prev
C26_Above(cur, prev) ==
    /\ ~isna(cur) /\ ~isna(prev)
    /\ (cur - prev) * backtest.strategy.threshold.den
         > backtest.strategy.threshold.num * prev

C26_Below(cur, prev) ==
    /\ ~isna(cur) /\ ~isna(prev)
    /\ (cur - prev) * backtest.strategy.threshold.den
         < -(backtest.strategy.threshold.num * prev)

C26_Expected(i) ==
    LET w == backtest.strategy.momentum_window
    IN  IF i < w + 1 THEN 0
        ELSE IF C26_Above(CloseAt(i), CloseAt(i - w)) /\ ~InPositionAt(i)
        THEN backtest.strategy.buy_shares
        ELSE IF C26_Below(CloseAt(i), CloseAt(i - w)) /\ InPositionAt(i)
        THEN -TrackedAt(i)
        ELSE 0

C26_MomentumSignals ==
    (Generated /\ backtest.strategy.kind = "Momentum") =>
        /\ Len(backtest.signals) = Len(backtest.data)
        /\ \A i \in Bars : SignalAt(i) = C26_Expected(i)

\* what holds: the claimed array when no close is missing or pandas does not
\* fill, and in general the claimed array of the series with each missing
\* close replaced by the last close before it
C26_LastCloseBefore(i) ==
    IF \A k \in 0..i : isna(CloseAt(k)) THEN NaN
    ELSE CloseAt(CHOOSE k \in 0..i :
                     ~isna(CloseAt(k)) /\ \A m \in (k + 1)..i : isna(CloseAt(m)))

C26_FilledClose(i) ==
    IF backtest.strategy.pad THEN C26_LastCloseBefore(i) ELSE CloseAt(i)

C26_MomentumSignalsOfFilledSeries ==
    (Generated /\ backtest.strategy.kind = "Momentum") =>
        /\ Len(backtest.signals) = Len(backtest.data)
        /\ \A i \in Bars :
               LET w == backtest.strategy.momentum_window
               IN  SignalAt(i) =
                       IF i < w + 1 THEN 0
                       ELSE IF /\ C26_Above(C26_FilledClose(i), C26_FilledClose(i - w))
                               /\ ~InPositionAt(i)
                       THEN backtest.strategy.buy_shares
                       ELSE IF /\ C26_Below(C26_FilledClose(i), C26_FilledClose(i - w))
                               /\ InPositionAt(i)
                       THEN -TrackedAt(i)
                       ELSE 0
        /\ ((\A i \in Bars : ~isna(CloseAt(i))) \/ ~backtest.strategy.pad) =>
               \A i \in Bars : SignalAt(i) = C26_Expected(i)

\* a buy signal at a bar whose close is missing
C26_SignalOnMissingClose ==
    /\ Generated /\ backtest.strategy.kind = "Momentum"
    /\ \E i \in Bars : isna(CloseAt(i)) /\ SignalAt(i) > 0

(***************************************************************************)
(* C27.  On a strictly increasing close series, with short_window <        *)
(* long_window, MACrossStrategy.generate_signals gives no negative signal; *)
(* the backtest makes no sell call, its log holds no sell record, and no   *)
(* ledger call of the run lowers the position.                             *)
(***************************************************************************)
C27_StrictlyIncreasing ==
    \A i \in Bars :
        /\ ~isna(CloseAt(i))
        /\ i > 0 => CloseAt(i - 1) < CloseAt(i)

C27_NoSellOnRisingSeries ==
    ( /\ Generated
      /\ backtest.strategy.kind = "MACross"
      /\ backtest.strategy.short_window < backtest.strategy.long_window
      /\ C27_StrictlyIncreasing ) =>
        /\ \A i \in Bars : SignalAt(i) >= 0
        /\ \A k \in 1..Len(backtest.trace) : backtest.trace[k].op # "sell"
        /\ \A k \in 1..Len(Transactions) : Transactions[k].action # "sell"
        /\ last.op \in {"buy", "sell", "update"} => portfolio.position >= Pre.position

\* a rising series longer than the long window, run to its end
C27_Witness ==
    /\ backtest.strategy.kind = "MACross"
    /\ backtest.strategy.short_window < backtest.strategy.long_window
    /\ C27_StrictlyIncreasing
    /\ Len(backtest.data) > backtest.strategy.long_window
    /\ backtest.pc = "returned"
    /\ portfolio.position > 0
    /\ Len(backtest.trace) = Len(backtest.data)


(***************************************************************************)
(* run_backtest as a function of its inputs: the strategy, the ledger of   *)
(* the TradingSystem and the table.  It is what the actions FindFirstValid,*)
(* Establish, Bar and Return do one after the other.                       *)
(***************************************************************************)
\* the table without the columns a strategy has written into it
price_table(data) ==
    [k \in 1..Len(data) |-> [date |-> data[k].date, close |-> data[k].close]]

\* trading_system.py lines 331-338: the ledger call a signal comes to
signal_call(self, date, price, signal) ==
    IF signal > 0 THEN portfolio_buy(self, date, price, signal)
    ELSE IF signal < 0 THEN portfolio_sell(self, date, price, -signal)
    ELSE portfolio_update(self, date, price)

\* what run_backtest leaves: the ledger, the log it returned (none when it
\* raised), the signals and the table
Outcome(self, raised, data, signals) ==
    [ portfolio |-> self, raised |-> raised,
      result |-> IF raised THEN << >> ELSE self.transactions,
      data |-> data, signals |-> signals ]

\* lines 327-340: the loop from bar i on, and the return
RECURSIVE trade_bars(_, _, _, _)
trade_bars(self, data, signals, i) ==
    IF i >= Len(data) THEN Outcome(self, FALSE, data, signals)
    ELSE LET ret == signal_call(self, iloc(data, i).date, iloc(data, i).close,
                                signals[i + 1])
         IN  IF ret.raised THEN Outcome(ret.self, TRUE, data, signals)
             ELSE trade_bars(ret.self, data, signals, i + 1)

\* lines 314-340: run_backtest once the signals are there
replay(self, data, signals) ==
    LET first_valid_idx == first_valid_scan(data, 0)
    IN  IF first_valid_idx >= Len(data) THEN Outcome(self, TRUE, data, signals)
        ELSE LET ret == portfolio_buy(self, iloc(data, first_valid_idx).date,
                                      iloc(data, first_valid_idx).close, LotSize)
             IN  IF ret.raised THEN Outcome(ret.self, TRUE, data, signals)
                 ELSE trade_bars(ret.self, data, signals, first_valid_idx + 1)

\* lines 310-340
run_backtest(strategy, self, data) ==
    LET ret == generate_signals(strategy, data)
    IN  replay(self, ret.data, ret.signals)

\* the function and the steps agree: a run of StrategySpec that is over has
\* left what run_backtest gives for its inputs
WholeRunAgrees ==
    Finished =>
        LET alone == run_backtest(backtest.strategy,
                                  NewPortfolio(Yuan(100000), DefaultTaxConfig,
                                               Len(backtest.data) + 1),
                                  price_table(backtest.data))
        IN  /\ alone.portfolio = portfolio
            /\ alone.raised = (backtest.pc = "raised")
            /\ alone.result = backtest.result
            /\ alone.signals = backtest.signals
            /\ alone.data = backtest.data


(***************************************************************************)
(* Two backtests of the same inputs.  Each is a TradingSystem of its own,  *)
(* constructed on a day of its own (Portfolio.__init__ reads the clock,    *)
(* line 39: datetime.now().date()) and given a table of its own with the   *)
(* same series; backtest holds the inputs and, per run, how far it is and  *)
(* what it gave; portfolio holds the two ledgers.                          *)
(***************************************************************************)
Runs == {1, 2}

\* the longest series of a twin run
MaxTwinBars == 4

TwinCloses == {10, 20}

\* the days the clock may show: a day that is a date of the series, and two
\* days after it
Days == {2, 8, 9}

\* a capital that does not buy a lot, and one that does
TwinCashes == {Yuan(500), Yuan(100000)}

TwinStrategies ==
    { MACrossStrategy(1, 2, 100), MomentumStrategy(1, Ratio(5, 100), 100, TRUE) }

NoReport == [called |-> FALSE]

TwinInit ==
    /\ \E n \in 0..MaxTwinBars :
         \E closes \in [1..n -> TwinCloses], strategy \in TwinStrategies,
            initial_cash \in TwinCashes, today \in [Runs -> Days] :
            /\ backtest =
                 [ strategy |-> strategy,
                   data |-> [k \in 1..n |-> [date |-> k, close |-> closes[k]]],
                   today |-> today,
                   pc |-> [r \in Runs |-> "constructed"],
                   result |-> [r \in Runs |-> << >>],
                   report |-> [r \in Runs |-> NoReport] ]
            /\ portfolio = [r \in Runs |->
                               NewPortfolio(initial_cash, DefaultTaxConfig, today[r])]
    /\ calls = 0
    /\ last = Call("new", 0, 0, 0, portfolio[1], [ok |-> TRUE, msg |-> NoMsg])
    /\ stats = NoStats

\* trading_system.py lines 310-340: one of the two systems runs its backtest
TwinRunBacktest ==
    /\ \E r \in Runs :
         /\ backtest.pc[r] = "constructed"
         /\ LET ret == run_backtest(backtest.strategy, portfolio[r], backtest.data)
            IN  /\ portfolio' = [portfolio EXCEPT ![r] = ret.portfolio]
                /\ backtest' = [backtest EXCEPT
                       !.pc[r] = IF ret.raised THEN "raised" ELSE "returned",
                       !.result[r] = ret.result]
    /\ UNCHANGED <<calls, last, stats>>

\* trading_system.py lines 342-344: and is asked for its statistics
TwinGetStatistics ==
    /\ \E r \in Runs :
         /\ backtest.pc[r] = "returned"
         /\ backtest' = [backtest EXCEPT
                !.pc[r] = "reported",
                !.report[r] = get_statistics(portfolio[r]).report]
    /\ UNCHANGED <<portfolio, calls, last, stats>>

TwinNext == TwinRunBacktest \/ TwinGetStatistics

TwinSpec == TwinInit /\ [][TwinNext]_vars

\* both runs have returned their log and their statistics
BothReported == \A r \in Runs : backtest.pc[r] = "reported"

\* a log with the date of its init record blanked
WithoutInitDate(log) == [log EXCEPT ![1].date = 0]

(***************************************************************************)
(* C21.  As claimed: two backtests given identical inputs (price series,   *)
(* strategy and parameters, initial_cash, fee schedule) produce identical  *)
(* transaction logs and identical summary reports, whatever the days on    *)
(* which they run.                                                         *)
(* The code breaks it: the init record is stamped with the day the ledger  *)
(* was constructed on, so the logs of two days differ in their first row;  *)
(* and update (line 200) skips its hold record when the last record has    *)
(* the date of the bar, which the init record has on one day and not on    *)
(* another.                                                                *)
(***************************************************************************)
C21_IdenticalRuns ==
    BothReported =>
        /\ backtest.result[1] = backtest.result[2]
        /\ backtest.report[1] = backtest.report[2]

\* what holds: runs of the same day are identical; runs on days that are no
\* date of the series differ in the date of the init record and in nothing
\* else; and the reports are identical in every case
C21_IdenticalButInitDate ==
    BothReported =>
        /\ backtest.today[1] = backtest.today[2] =>
               backtest.result[1] = backtest.result[2]
        /\ (\A r \in Runs : \A k \in 1..Len(backtest.data) :
                backtest.data[k].date # backtest.today[r]) =>
               WithoutInitDate(backtest.result[1]) = WithoutInitDate(backtest.result[2])
        /\ backtest.report[1] = backtest.report[2]

\* two runs of different days that traded and whose logs differ in the date
\* of the init record only
C21_LogsDifferInInitDate ==
    /\ BothReported
    /\ backtest.result[1] # backtest.result[2]
    /\ WithoutInitDate(backtest.result[1]) = WithoutInitDate(backtest.result[2])
    /\ \E k \in 1..Len(backtest.result[1]) : backtest.result[1][k].action = "sell"

\* two runs whose logs differ in length: one of them was constructed on the
\* date of a bar and lost that bar's hold record
C21_LogsDifferInLength ==
    /\ BothReported
    /\ Len(backtest.result[1]) # Len(backtest.result[2])


(***************************************************************************)
(* Two backtests at once, each a TradingSystem with its strategy and its   *)
(* ledger, both given the same table.  backtest holds the table and the    *)
(* frame of each run_backtest: pc, the signals, the index j and the        *)
(* position of the strategy's loop, the index i of the driver's loop,      *)
(* first_valid_idx and the returned log; portfolio holds the two ledgers.  *)
(* A step of a run is a statement of generate_signals (a column written    *)
(* into the table, a pass of its loop, which reads the table) or of        *)
(* run_backtest (the search, a ledger call, the return).                   *)
(***************************************************************************)
\* the longest shared series
MaxShared == 3

SharedCloses == {10, 20}

SharedStrategies ==
    { MACrossStrategy(1, 2, 100), MACrossStrategy(2, 3, 100),
      MomentumStrategy(1, Ratio(5, 100), 100, TRUE) }

\* the ledger of a run, as constructed
SharedPortfolio(n) == NewPortfolio(Yuan(100000), DefaultTaxConfig, n + 1)

SharedInit ==
    /\ \E n \in 0..MaxShared :
         \E closes \in [1..n -> SharedCloses], strategy \in [Runs -> SharedStrategies] :
            backtest =
              [ table |-> [k \in 1..n |-> [date |-> k, close |-> closes[k]]],
                runs |-> [r \in Runs |->
                            [ pc |-> "constructed", strategy |-> strategy[r],
                              signals |-> << >>, j |-> 0, position |-> 0,
                              i |-> 0, first_valid_idx |-> 0, result |-> << >> ]] ]
    /\ portfolio = [r \in Runs |-> SharedPortfolio(Len(backtest.table))]
    /\ calls = 0
    /\ last = Call("new", 0, 0, 0, portfolio[1], [ok |-> TRUE, msg |-> NoMsg])
    /\ stats = NoStats

\* strategy_impl.py lines 12 and 20: signals = np.zeros(len(data));
\* data['short_ma'] = ...
WriteShortMa ==
    /\ \E r \in Runs :
         LET frame == backtest.runs[r]
         IN  /\ frame.pc = "constructed"
             /\ frame.strategy.kind = "MACross"
             /\ backtest' = [backtest EXCEPT
                    !.table = with_column(@, "short_ma",
                                  rolling_mean(close_column(@), frame.strategy.short_window)),
                    !.runs[r].pc = "short_ma",
                    !.runs[r].signals = zeros(Len(backtest.table))]
    /\ UNCHANGED <<portfolio, calls, last, stats>>

\* strategy_impl.py lines 21 and 24: data['long_ma'] = ...; position = 0
WriteLongMa ==
    /\ \E r \in Runs :
         LET frame == backtest.runs[r]
         IN  /\ frame.pc = "short_ma"
             /\ backtest' = [backtest EXCEPT
                    !.table = with_column(@, "long_ma",
                                  rolling_mean(close_column(@), frame.strategy.long_window)),
                    !.runs[r].pc = "loop",
                    !.runs[r].j = frame.strategy.long_window]
    /\ UNCHANGED <<portfolio, calls, last, stats>>

\* strategy_impl.py lines 55, 63 and 66: signals = np.zeros(len(data));
\* data['momentum'] = ...; position = 0
WriteMomentum ==
    /\ \E r \in Runs :
         LET frame == backtest.runs[r]
         IN  /\ frame.pc = "constructed"
             /\ frame.strategy.kind = "Momentum"
             /\ backtest' = [backtest EXCEPT
                    !.table = with_column(@, "momentum",
                                  pct_change(close_column(@),
                                             frame.strategy.momentum_window,
                                             frame.strategy.pad)),
                    !.runs[r].pc = "loop",
                    !.runs[r].signals = zeros(Len(backtest.table)),
                    !.runs[r].j = frame.strategy.momentum_window + 1]
    /\ UNCHANGED <<portfolio, calls, last, stats>>

\* strategy_impl.py lines 29-40 and 71-78: the signal of bar i, read off the
\* columns the table has now
loop_signal(strategy, data, i, position) ==
    IF strategy.kind = "MACross"
    THEN ma_cross_signal(iloc(data, i - 1).short_ma, iloc(data, i - 1).long_ma,
                         iloc(data, i).short_ma, iloc(data, i).long_ma,
                         position, strategy.buy_shares)
    ELSE momentum_signal(iloc(data, i).momentum, strategy.threshold,
                         position, strategy.buy_shares)

\* strategy_impl.py lines 27-40 and 69-78: one pass of the strategy's loop
LoopPass ==
    /\ \E r \in Runs :
         LET frame == backtest.runs[r]
             signal == loop_signal(frame.strategy, backtest.table, frame.j, frame.position)
         IN  /\ frame.pc = "loop"
             /\ frame.j < Len(backtest.table)
             /\ backtest' = [backtest EXCEPT
                    !.runs[r].j = frame.j + 1,
                    !.runs[r].position = frame.position + signal,
                    !.runs[r].signals = IF signal = 0 THEN @
                                        ELSE [@ EXCEPT ![frame.j + 1] = signal]]
    /\ UNCHANGED <<portfolio, calls, last, stats>>

\* strategy_impl.py lines 42 and 80, trading_system.py line 312: the
\* strategy returns the signals
ReturnSignals ==
    /\ \E r \in Runs :
         /\ backtest.runs[r].pc = "loop"
         /\ backtest.runs[r].j >= Len(backtest.table)
         /\ backtest' = [backtest EXCEPT !.runs[r].pc = "called"]
    /\ UNCHANGED <<portfolio, calls, last, stats>>

\* trading_system.py lines 314-319
SharedFindFirstValid ==
    /\ \E r \in Runs :
         /\ backtest.runs[r].pc = "called"
         /\ backtest' = [backtest EXCEPT
                !.runs[r].pc = "establish",
                !.runs[r].first_valid_idx = first_valid_scan(backtest.table, 0)]
    /\ UNCHANGED <<portfolio, calls, last, stats>>

\* trading_system.py lines 322-324
SharedEstablish ==
    /\ \E r \in Runs :
         LET frame == backtest.runs[r]
             idx == frame.first_valid_idx
         IN  /\ frame.pc = "establish"
             /\ IF idx >= Len(backtest.table)
                THEN /\ backtest' = [backtest EXCEPT !.runs[r].pc = "raised"]
                     /\ UNCHANGED <<portfolio, calls, last>>
                ELSE LET date == iloc(backtest.table, idx).date
                         price == iloc(backtest.table, idx).close
                         ret == portfolio_buy(portfolio[r], date, price, LotSize)
                     IN  /\ portfolio' = [portfolio EXCEPT ![r] = ret.self]
                         /\ last' = Call("buy", date, price, LotSize, portfolio[r], ret)
                         /\ calls' = calls + 1
                         /\ backtest' = [backtest EXCEPT
                                !.runs[r].pc = IF ret.raised THEN "raised" ELSE "bars",
                                !.runs[r].i = idx + 1]
    /\ UNCHANGED stats

\* trading_system.py lines 327-338
SharedBar ==
    /\ \E r \in Runs :
         LET frame == backtest.runs[r]
             date == iloc(backtest.table, frame.i).date
             price == iloc(backtest.table, frame.i).close
             signal == frame.signals[frame.i + 1]
             ret == signal_call(portfolio[r], date, price, signal)
         IN  /\ frame.pc = "bars"
             /\ frame.i < Len(backtest.table)
             /\ portfolio' = [portfolio EXCEPT ![r] = ret.self]
             /\ last' = Call(IF signal > 0 THEN "buy" ELSE IF signal < 0 THEN "sell"
                             ELSE "update",
                             date, price, IF signal < 0 THEN -signal ELSE signal,
                             portfolio[r], ret)
             /\ backtest' = [backtest EXCEPT
                    !.runs[r].pc = IF ret.raised THEN "raised" ELSE "bars",
                    !.runs[r].i = frame.i + 1]
    /\ calls' = calls + 1
    /\ UNCHANGED stats

\* trading_system.py line 340
SharedReturn ==
    /\ \E r \in Runs :
         /\ backtest.runs[r].pc = "bars"
         /\ backtest.runs[r].i >= Len(backtest.table)
         /\ backtest' = [backtest EXCEPT
                !.runs[r].pc = "returned",
                !.runs[r].result = portfolio[r].transactions]
    /\ UNCHANGED <<portfolio, calls, last, stats>>

SharedNext ==
    \/ WriteShortMa \/ WriteLongMa \/ WriteMomentum \/ LoopPass \/ ReturnSignals
    \/ SharedFindFirstValid \/ SharedEstablish \/ SharedBar \/ SharedReturn

SharedSpec == SharedInit /\ [][SharedNext]_vars

\* what run r gives when it runs alone on the table
Alone(r) ==
    run_backtest(backtest.runs[r].strategy,
                 SharedPortfolio(Len(backtest.table)), price_table(backtest.table))

\* the strategy of run r has returned its signals
HasSignals(r) ==
    backtest.runs[r].pc \in {"called", "establish", "bars", "returned", "raised"}

(***************************************************************************)
(* C22.  As claimed: backtests running concurrently on different ledgers   *)
(* do not interfere; in every interleaving of their steps, the signals of  *)
(* each run and the log it returns are those of the run alone, the table   *)
(* being shared.                                                           *)
(* The code breaks it: generate_signals writes its columns (short_ma,      *)
(* long_ma, momentum) into the table it is given and reads them back in    *)
(* its loop, so a strategy of the same kind and other windows, run on the  *)
(* same table, replaces the columns under the loop.                        *)
(***************************************************************************)
C22_NoInterference ==
    \A r \in Runs :
        /\ HasSignals(r) => backtest.runs[r].signals = Alone(r).signals
        /\ backtest.runs[r].pc = "returned" => backtest.runs[r].result = Alone(r).result

\* what holds: the ledgers do not interfere, the log of a run is the one its
\* signals give on a ledger of its own; and runs whose strategies write
\* different columns, or the same values, do not interfere at all
C22_LedgersDoNotInterfere ==
    /\ \A r \in Runs :
           backtest.runs[r].pc \in {"returned", "raised"} =>
               LET own == replay(SharedPortfolio(Len(backtest.table)),
                                 price_table(backtest.table), backtest.runs[r].signals)
               IN  /\ portfolio[r] = own.portfolio
                   /\ backtest.runs[r].result = own.result
    /\ ( \/ backtest.runs[1].strategy.kind # backtest.runs[2].strategy.kind
         \/ backtest.runs[1].strategy = backtest.runs[2].strategy ) =>
           C22_NoInterference

\* a run has returned a log that is not the log it returns alone, the other
\* run having written its averages over this run's
C22_Interfered ==
    \E r \in Runs :
        /\ backtest.runs[r].pc = "returned"
        /\ backtest.runs[r].signals # Alone(r).signals
        /\ backtest.runs[r].result # Alone(r).result


(***************************************************************************)
(* C31.  As claimed: whenever buy returns failure the whole ledger is as   *)
(* it was before the call: cash, position, the log and initial_buy, for    *)
(* both failure reasons.                                                   *)
(* The code breaks it for the funds failure of an establishing buy: line   *)
(* 96 has cleared initial_buy when lines 104-108 refuse the buy.           *)
(***************************************************************************)
C31_FailedBuyChangesNothing ==
    (last.op = "buy" /\ ~last.ok) => portfolio = Pre

\* what holds: a failed buy leaves everything but the flag as it was, and
\* the flag too when the failure is the insufficient-initial-capital one or
\* the flag was already cleared
C31_FailedBuyKeepsAllButFlag ==
    (last.op = "buy" /\ ~last.ok) =>
        /\ portfolio = [Pre EXCEPT !.initial_buy = portfolio.initial_buy]
        /\ (last.msg.kind = "insufficient_initial_capital" \/ ~Pre.initial_buy) =>
               portfolio = Pre

\* an establishing buy refused for lack of funds left the flag cleared
C31_FlagLostOnFailure ==
    /\ last.op = "buy" /\ ~last.ok
    /\ last.msg.kind = "insufficient_funds"
    /\ Pre.initial_buy /\ ~portfolio.initial_buy
    /\ portfolio.cash = Pre.cash


(***************************************************************************)
(* C32.  update(date, price) never changes cash, position or initial_buy;  *)
(* when the last record's date differs from date it appends exactly one    *)
(* hold record with shares 0, tax 0, the current cash and position, market *)
(* value price * position and total assets cash + price * position.        *)
(***************************************************************************)
C32_UpdateAppendsHoldOnly ==
    last.op = "update" =>
        /\ portfolio.cash = Pre.cash
        /\ portfolio.position = Pre.position
        /\ portfolio.initial_buy = Pre.initial_buy
        /\ PreLastRecord.date # last.date =>
               /\ Len(Transactions) = Len(Pre.transactions) + 1
               /\ SubSeq(Transactions, 1, Len(Pre.transactions)) = Pre.transactions
               /\ LastRecord.action = "hold"
               /\ LastRecord.date = last.date /\ LastRecord.price = last.price
               /\ LastRecord.shares = 0 /\ LastRecord.tax = 0
               /\ LastRecord.cash_after = Pre.cash
               /\ LastRecord.position_after = Pre.position
               /\ LastRecord.market_value_after = Yuan(last.price * Pre.position)
               /\ LastRecord.total_assets_after =
                      Pre.cash + Yuan(last.price * Pre.position)

\* an update on a new date marked a held position to a price other than the
\* one it was bought at
C32_Witness ==
    /\ last.op = "update"
    /\ PreLastRecord.date # last.date
    /\ PreLastRecord.action = "buy" /\ PreLastRecord.price # last.price
    /\ Pre.position > 0
    /\ LastRecord.action = "hold" /\ LastRecord.market_value_after > 0


(***************************************************************************)
(* C33.  Money conservation per trade: for every successful buy or sell at *)
(* price p, cash + position * p just after the call is cash + position * p *)
(* just before it minus the tax the call charged (the tax of the record it *)
(* appended); nothing else is created or lost, also when the share count   *)
(* was sized, shrunk or clamped.                                           *)
(***************************************************************************)
C33_MoneyConserved ==
    (IsTrade /\ last.ok) =>
        portfolio.cash + Yuan(portfolio.position * last.price) =
            Pre.cash + Yuan(Pre.position * last.price) - LastRecord.tax

\* a buy that was shrunk for lack of funds added to a position held before,
\* at a tax above the minimum commission
C33_Witness ==
    /\ last.op = "buy" /\ last.ok
    /\ Pre.position > 0
    /\ 0 < LastRecord.shares /\ LastRecord.shares < last.shares
    /\ LastRecord.tax > Pre.tax_config.min_commission
    /\ portfolio.cash < Pre.cash


(***************************************************************************)
(* C34.  For every log the ledger operations produce, after the reducer    *)
(* has processed any prefix of the log the shares of its open-lot queue    *)
(* add up to position_after of the last record of the prefix; hence every  *)
(* sell record finds open lots that cover all of its shares, and no sold   *)
(* share goes unmatched.                                                   *)
(***************************************************************************)
\* the shares of the open lots
C34_OpenShares(buy_records) ==
    SeqSum([k \in 1..Len(buy_records) |-> buy_records[k].shares])

\* the open lots after the loop of lines 255-281 has read the first k records
C34_QueueAfter(k) ==
    trade_loop(SubSeq(Transactions, 1, k), 1,
               [ buy_records |-> << >>, trade_profits |-> << >>,
                 max_profit |-> 0, max_loss |-> 0 ]).buy_records

C34_QueueIsPosition ==
    /\ \A k \in 1..Len(Transactions) :
           /\ C34_OpenShares(C34_QueueAfter(k)) = Transactions[k].position_after
           /\ Transactions[k].action = "sell" =>
                  /\ C34_QueueAfter(k - 1) # << >>
                  /\ C34_OpenShares(C34_QueueAfter(k - 1)) >= Transactions[k].shares
    /\ stats.called =>
           \E k \in 1..Len(Transactions) :
               /\ stats.buy_records = C34_QueueAfter(k)
               /\ C34_OpenShares(stats.buy_records) = Transactions[k].position_after

\* the statistics of a log with two buys and a sell that took part of the
\* first lot
C34_Witness ==
    /\ stats.called
    /\ Len(Transactions) = 4
    /\ Transactions[2].action = "buy" /\ Transactions[3].action = "buy"
    /\ Transactions[4].action = "sell"
    /\ Len(stats.buy_records) = 2
    /\ stats.buy_records[1].shares = Transactions[2].shares - Transactions[4].shares
    /\ stats.buy_records[2].shares = Transactions[3].shares


(***************************************************************************)
(* run_backtest with a capital that does not buy a lot at the dearer of    *)
(* two closes and buys two at the cheaper.                                 *)
(***************************************************************************)
LateCloses == {10, 30}

LateCashes == {Yuan(2500), Yuan(100000)}

LateInit ==
    /\ \E n \in 0..MaxBars :
         \E closes \in [1..n -> LateCloses], signals \in [1..n -> Signals] :
            backtest = [ pc |-> "called",
                         data |-> [k \in 1..n |-> [date |-> k, close |-> closes[k]]],
                         signals |-> signals,
                         i |-> 0, first_valid_idx |-> 0,
                         trace |-> << >>, result |-> << >> ]
    /\ \E initial_cash \in LateCashes :
           portfolio = NewPortfolio(initial_cash, DefaultTaxConfig,
                                    Len(backtest.data) + 1)
    /\ calls = 0
    /\ last = Call("new", 0, 0, 0, portfolio, [ok |-> TRUE, msg |-> NoMsg])
    /\ stats = NoStats

LateSpec == LateInit /\ [][BacktestNext]_vars

\* the last ledger call was made for a bar after the first valid one
AtLaterBar == Len(backtest.trace) >= 2

(***************************************************************************)
(* C35.  As claimed: in a backtest the full-capital sizing rule is applied *)
(* only to the buy at the first valid bar; when that buy fails for         *)
(* insufficient initial capital the driver goes on over the remaining      *)
(* bars, and every buy at a later bar executes at most the quantity of its *)
(* signal.                                                                 *)
(* The code breaks it: the refused establishing buy leaves initial_buy     *)
(* set (line 98), the driver passes later buy signals to the same buy      *)
(* (line 333), and the first of them that can pay for a lot is sized by    *)
(* line 93 with the whole cash.                                            *)
(***************************************************************************)
C35_SizingOnlyAtFirstValidBar ==
    /\ (Len(backtest.trace) = 1 /\ ~last.ok) => backtest.pc # "raised"
    /\ (AtLaterBar /\ last.op = "buy") =>
           /\ ~Pre.initial_buy
           /\ last.ok => LastRecord.shares <= last.shares

\* what holds: the driver goes on after a refused establishing buy, and a
\* buy at a later bar on a ledger whose flag is cleared executes at most the
\* quantity of its signal
C35_WithinSignalOnceEstablished ==
    /\ (Len(backtest.trace) = 1 /\ ~last.ok) => backtest.pc # "raised"
    /\ (AtLaterBar /\ last.op = "buy" /\ last.ok /\ ~Pre.initial_buy) =>
           LastRecord.shares <= last.shares

\* the buy at the first valid bar was refused for insufficient initial
\* capital, and a buy signal at a later bar bought more than its quantity
C35_SizedAtLaterBar ==
    /\ AtLaterBar
    /\ last.op = "buy" /\ last.ok
    /\ Pre.initial_buy
    /\ backtest.trace[1].op = "buy"
    /\ LastRecord.shares > last.shares


(***************************************************************************)
(* C36.  As claimed: in a backtest the driver reconciles the signals with  *)
(* what the ledger executed; the shares sold on a sell signal never exceed *)
(* the shares the ledger added on the buy signals since the previous sell  *)
(* signal, so when the buy signal before it failed or was shrunk the sell  *)
(* does not sell shares of the establishing position.                      *)
(* The code does no such thing: line 336 passes abs(signal) to sell, which *)
(* clamps it to the whole position (lines 150-151), the shares of the      *)
(* establishing buy included.                                              *)
(***************************************************************************)
\* the bar the last ledger call was made for
C36_Bar == backtest.trace[Len(backtest.trace)].bar

\* the bars after the first valid one and before bar i that have a sell signal
C36_SellBarsBefore(i) ==
    {j \in (backtest.first_valid_idx + 1)..(i - 1) : SignalAt(j) < 0}

\* the bar of the sell signal before bar i, the first valid bar when there is none
C36_PreviousSellBar(i) ==
    IF C36_SellBarsBefore(i) = {} THEN backtest.first_valid_idx
    ELSE CHOOSE j \in C36_SellBarsBefore(i) : \A k \in C36_SellBarsBefore(i) : k <= j

\* the shares of the buy records of the bars after lo and before hi (the
\* record of bar k carries the date k + 1)
C36_BoughtBetween(lo, hi) ==
    SeqSum([k \in 1..Len(Pre.transactions) |->
               IF /\ Pre.transactions[k].action = "buy"
                  /\ lo < Pre.transactions[k].date - 1
                  /\ Pre.transactions[k].date - 1 < hi
               THEN Pre.transactions[k].shares ELSE 0])

C36_SellsOnlySignalledShares ==
    (AtLaterBar /\ last.op = "sell" /\ last.ok) =>
        LastRecord.shares <= C36_BoughtBetween(C36_PreviousSellBar(C36_Bar), C36_Bar)

\* what holds: a sell signal sells its quantity or the whole position,
\* whichever is less, wherever the shares came from
C36_SellsSignalOrPosition ==
    (AtLaterBar /\ last.op = "sell") =>
        IF Min(last.shares, Pre.position) > 0
        THEN last.ok /\ LastRecord.shares = Min(last.shares, Pre.position)
        ELSE ~last.ok

\* the buy signal of a strategy was refused for lack of funds, and the sell
\* signal after it sold shares of the establishing position
C36_SoldEstablishingShares ==
    /\ AtLaterBar
    /\ last.op = "sell" /\ last.ok
    /\ \E j \in (backtest.first_valid_idx + 1)..(C36_Bar - 1) : SignalAt(j) > 0
    /\ C36_BoughtBetween(backtest.first_valid_idx, C36_Bar) = 0
    /\ LastRecord.shares = backtest.strategy.buy_shares


(***************************************************************************)
(* C37.  As claimed: for the bars after the first valid bar the driver     *)
(* never calls the ledger with a missing close; every record of the log of *)
(* a backtest has a defined price, market value and total assets, whatever *)
(* bars of the series have a missing close.                                *)
(* The code does not look: lines 328-338 read the close of every later bar *)
(* and pass it on as it is.                                                *)
(***************************************************************************)
C37_NoMissingClosePassed ==
    /\ \A k \in 2..Len(backtest.trace) : ~isna(backtest.trace[k].price)
    /\ \A r \in Records :
           /\ ~isna(r.price)
           /\ ~isna(r.market_value_after)
           /\ ~isna(r.total_assets_after)

\* what holds: the call for a bar carries the close of that bar, missing or
\* not, and a record with a missing price is the record of such a call
C37_CloseOfTheBarPassed ==
    /\ \A k \in 1..Len(backtest.trace) :
           backtest.trace[k].price = iloc(backtest.data, backtest.trace[k].bar).close
    /\ \A r \in Records :
           isna(r.price) =>
               \E k \in 2..Len(backtest.trace) :
                   /\ isna(backtest.trace[k].price)
                   /\ backtest.trace[k].date = r.date

\* update was called for a later bar with a missing close and logged a hold
\* record without price, market value or total assets
C37_MissingCloseLogged ==
    /\ AtLaterBar
    /\ last.op = "update" /\ isna(last.price)
    /\ LastRecord.action = "hold"
    /\ isna(LastRecord.price)
    /\ isna(LastRecord.market_value_after)
    /\ isna(LastRecord.total_assets_after)
    /\ ~isna(LastRecord.cash_after)


(***************************************************************************)
(* C38.  As claimed: run_backtest and generate_signals leave the input     *)
(* price series as it was; no row or column of the table is added,         *)
(* removed or modified by a backtest.                                      *)
(* The code adds columns: data['short_ma'] and data['long_ma']             *)
(* (strategy_impl.py lines 20-21) and data['momentum'] (line 63) are       *)
(* assigned into the table the caller passed.                              *)
(***************************************************************************)
C38_SeriesUnchanged ==
    \A k \in 1..Len(backtest.data) : DOMAIN backtest.data[k] = {"date", "close"}

\* what holds: no step of a backtest changes the rows, the dates or the
\* closes of the table
C38_DatesAndClosesUnchanged ==
    [][price_table(backtest'.data) = price_table(backtest.data)]_vars

\* a finished backtest has left the table with the two averages of its
\* strategy in it
C38_ColumnsAdded ==
    /\ backtest.pc = "returned"
    /\ backtest.strategy.kind = "MACross"
    /\ Len(backtest.data) > backtest.strategy.long_window
    /\ \A k \in 1..Len(backtest.data) :
           DOMAIN backtest.data[k] = {"date", "close", "short_ma", "long_ma"}


(***************************************************************************)
(* C39.  In the signal array of either strategy, for every input series,   *)
(* the non-zero entries alternate in sign, starting with a positive one;   *)
(* every positive entry is +buy_shares and every negative one -buy_shares; *)
(* so on every prefix the buy signals are as many as the sell signals or   *)
(* one more.                                                               *)
(***************************************************************************)
\* the bars of the first n that carry a buy signal, a sell signal
C39_Buys(n) == {i \in 0..(n - 1) : SignalAt(i) > 0}

C39_Sells(n) == {i \in 0..(n - 1) : SignalAt(i) < 0}

\* bars i < j with a signal each and none between them
C39_Consecutive(i, j) ==
    /\ i < j
    /\ SignalAt(i) # 0 /\ SignalAt(j) # 0
    /\ \A k \in (i + 1)..(j - 1) : SignalAt(k) = 0

C39_SignalsAlternate ==
    Generated =>
        /\ Len(backtest.signals) = Len(backtest.data)
        /\ \A i \in Bars :
               SignalAt(i) \in {0, backtest.strategy.buy_shares,
                                -backtest.strategy.buy_shares}
        /\ \A i \in Bars :
               (SignalAt(i) # 0 /\ \A k \in 0..(i - 1) : SignalAt(k) = 0) =>
                   SignalAt(i) > 0
        /\ \A i, j \in Bars :
               C39_Consecutive(i, j) => (SignalAt(i) > 0) # (SignalAt(j) > 0)
        /\ \A n \in 0..Len(backtest.signals) :
               Cardinality(C39_Buys(n)) - Cardinality(C39_Sells(n)) \in {0, 1}

\* an array with a buy, a sell and a second buy
C39_Witness ==
    /\ Generated
    /\ \E i, j, k \in Bars :
           /\ C39_Consecutive(i, j) /\ C39_Consecutive(j, k)
           /\ SignalAt(i) = backtest.strategy.buy_shares
           /\ SignalAt(j) = -backtest.strategy.buy_shares
           /\ SignalAt(k) = backtest.strategy.buy_shares


(***************************************************************************)
(* run_backtest called a second time on the same TradingSystem, with the   *)
(* same series.  The frame has two more fields: run, the number of the     *)
(* call under way, and first, the log the first call returned.             *)
(***************************************************************************)
AgainInit ==
    /\ \E n \in 0..MaxBars :
         \E closes \in [1..n -> Closes], signals \in [1..n -> Signals] :
            backtest = [ pc |-> "called",
                         data |-> [k \in 1..n |-> [date |-> k, close |-> closes[k]]],
                         signals |-> signals,
                         i |-> 0, first_valid_idx |-> 0,
                         trace |-> << >>, result |-> << >>,
                         run |-> 1, first |-> << >> ]
    /\ \E initial_cash \in BacktestCashes :
           portfolio = NewPortfolio(initial_cash, DefaultTaxConfig,
                                    Len(backtest.data) + 1)
    /\ calls = 0
    /\ last = Call("new", 0, 0, 0, portfolio, [ok |-> TRUE, msg |-> NoMsg])
    /\ stats = NoStats

\* trading_system.py lines 310-312: the second call; self.portfolio is the
\* ledger __init__ made (line 308), as the first call left it
CallAgain ==
    /\ backtest.pc = "returned"
    /\ backtest.run = 1
    /\ backtest' = [backtest EXCEPT !.pc = "called", !.run = 2,
                                    !.first = backtest.result,
                                    !.i = 0, !.first_valid_idx = 0,
                                    !.trace = << >>, !.result = << >>]
    /\ UNCHANGED <<portfolio, calls, last, stats>>

AgainNext == FindFirstValid \/ Establish \/ Bar \/ Return \/ CallAgain

AgainSpec == AgainInit /\ [][AgainNext]_vars

(***************************************************************************)
(* C40.  As claimed: each run_backtest call starts from the initial ledger *)
(* state (cash = initial_cash, position 0, establishing buy not done, the  *)
(* log holding init only), so a second call on the same TradingSystem with *)
(* the same series returns the same log as the first.                      *)
(* The code makes the ledger once, in TradingSystem.__init__ (line 308),   *)
(* and run_backtest never resets it: the second call goes on where the     *)
(* first stopped.                                                          *)
(***************************************************************************)
C40_SecondRunSameLog ==
    /\ (backtest.run = 2 /\ backtest.pc \in {"called", "establish"}) =>
           portfolio = NewPortfolio(portfolio.initial_cash, DefaultTaxConfig,
                                    Len(backtest.data) + 1)
    /\ (backtest.run = 2 /\ backtest.pc = "returned") =>
           backtest.result = backtest.first

\* what holds: the second call starts on the ledger the first call left,
\* and the log it returns is the first one with the second run's records
\* after it
C40_SecondRunContinues ==
    backtest.run = 2 =>
        /\ backtest.pc \in {"called", "establish"} =>
               portfolio.transactions = backtest.first
        /\ Len(backtest.first) <= Len(portfolio.transactions)
        /\ SubSeq(portfolio.transactions, 1, Len(backtest.first)) = backtest.first
        /\ backtest.pc = "returned" => backtest.result = portfolio.transactions

\* the second call has returned a log that is longer than the first call's
\* and starts with it, its first ledger call having been an ordinary buy
C40_SecondLogLonger ==
    /\ backtest.run = 2 /\ backtest.pc = "returned"
    /\ Len(backtest.first) >= 2
    /\ Len(backtest.result) > Len(backtest.first)
    /\ backtest.result[Len(backtest.first) + 1].date = 1

=============================================================================
